---- MODULE Spec2Model ----
(***************************************************************************)
(* Reward settlement engine of Protocol-POH (backend/app).                 *)
(*                                                                         *)
(*  - DistributionService.calculate_distribution: proportional allocation  *)
(*    with Decimal (28 significant digits) shares, integer truncation and  *)
(*    remainder distribution.                                              *)
(*  - acquire_distribution_lock: SELECT ... FOR UPDATE NOWAIT on the       *)
(*    single DistributionLock row, held by the session's transaction.      *)
(*  - the settlement tasks _check_distribution_triggers,                   *)
(*    check_and_distribute and _force_distribution, each under its own     *)
(*    database session.                                                    *)
(*  - execute_distribution / _execute_token_transfers /                    *)
(*    batch_confirm_transactions and the ledger rows they commit.          *)
(***************************************************************************)
EXTENDS Integers, Sequences, FiniteSets, TLC

\* ------------------------------------------------------------------------
\* Bounds of the model
\* ------------------------------------------------------------------------
MaxPool == 4          \* pool balances 0..MaxPool (raw token units)
MaxWeight == 3        \* hash power of a wallet, 0..MaxWeight
MaxPolls == 2         \* polls of batch confirmation before its timeout
MaxRunPool == 2       \* pool balances of the settlement runs, 0..MaxRunPool
MaxSigs == 2
MaxSamples == 2         \* balance samples handed to _compute_twab
MaxTime == 4            \* timestamps and window bounds, in seconds
MaxBalance == 4         \* largest sampled balance          \* references handed to one batch confirmation
MaxRunWeight == 1     \* hash powers of the settlement runs, 0..MaxRunWeight

\* Program constants
DecimalPrec == 28     \* precision of Python's default decimal context

Wallets == <<"a", "b", "c">>
WalletSet == {Wallets[i] : i \in 1..Len(Wallets)}
RunWallets == {"a", "b"}
Workers == {"w1", "w2"}
NoSig == 0            \* None as a transfer reference (signatures are > 0)

\* ------------------------------------------------------------------------
\* decimal.Decimal arithmetic, as digit sequences (most significant first).
\* A number is [digs, scale]: the integer written by digs, times 10^-scale.
\* ------------------------------------------------------------------------
RECURSIVE IntToDigits(_)
IntToDigits(n) ==
    IF n = 0 THEN <<>> ELSE IntToDigits(n \div 10) \o <<n % 10>>

RECURSIVE DigitsToInt(_)
DigitsToInt(ds) ==
    IF ds = <<>> THEN 0
    ELSE 10 * DigitsToInt(SubSeq(ds, 1, Len(ds) - 1)) + ds[Len(ds)]

RECURSIVE StripZeros(_)
StripZeros(ds) ==
    IF ds # <<>> /\ ds[1] = 0 THEN StripZeros(Tail(ds)) ELSE ds

\* n digits of r/d after the decimal point (0 <= r < d)
RECURSIVE LongDiv(_, _, _)
LongDiv(r, d, n) ==
    IF n = 0 THEN <<>>
    ELSE <<(r * 10) \div d>> \o LongDiv((r * 10) % d, d, n - 1)

\* the remainder left after those n digits
RECURSIVE LongRem(_, _, _)
LongRem(r, d, n) ==
    IF n = 0 THEN r ELSE LongRem((r * 10) % d, d, n - 1)

\* number of zeros between the decimal point and the first digit of r/d
RECURSIVE LeadingZeros(_, _)
LeadingZeros(r, d) ==
    IF r = 0 \/ r * 10 >= d THEN 0 ELSE 1 + LeadingZeros(r * 10, d)

\* digit sequence plus one
RECURSIVE Increment(_)
Increment(ds) ==
    IF ds = <<>> THEN <<1>>
    ELSE LET L == Len(ds) IN
         IF ds[L] < 9 THEN [ds EXCEPT ![L] = @ + 1]
         ELSE Increment(SubSeq(ds, 1, L - 1)) \o <<0>>

HasNonZero(ds) == \E i \in 1..Len(ds) : ds[i] # 0

\* Round a coefficient to the context precision, ROUND_HALF_EVEN.
\* sticky: the exact value has nonzero digits beyond digs.
DecRound(digs, scale, sticky) ==
    LET L == Len(digs) IN
    IF L <= DecimalPrec THEN [digs |-> digs, scale |-> scale]
    ELSE LET keep  == SubSeq(digs, 1, DecimalPrec)
             guard == digs[DecimalPrec + 1]
             st    == sticky \/ HasNonZero(SubSeq(digs, DecimalPrec + 2, L))
             sc    == scale - (L - DecimalPrec)
             up    == \/ guard > 5
                      \/ guard = 5 /\ st
                      \/ guard = 5 /\ ~st /\ keep[DecimalPrec] % 2 = 1
             inc   == Increment(keep)
         IN  IF ~up THEN [digs |-> keep, scale |-> sc]
             ELSE IF Len(inc) > DecimalPrec
                  THEN [digs |-> SubSeq(inc, 1, DecimalPrec), scale |-> sc - 1]
                  ELSE [digs |-> inc, scale |-> sc]

\* Decimal(a) / Decimal(b) for integers a >= 0, b > 0
DecDivide(a, b) ==
    LET ip == a \div b
        r0 == a % b
        id == IntToDigits(ip)
        nf == IF ip > 0 THEN DecimalPrec + 1 - Len(id)
              ELSE LeadingZeros(r0, b) + DecimalPrec + 1
    IN  IF r0 = 0 THEN [digs |-> id, scale |-> 0]
        ELSE DecRound(StripZeros(id \o LongDiv(r0, b, nf)), nf,
                      LongRem(r0, b, nf) # 0)

\* digits of (the integer written by ds) * m + carry
RECURSIVE MulCarry(_, _, _)
MulCarry(ds, m, carry) ==
    IF ds = <<>> THEN IntToDigits(carry)
    ELSE LET L == Len(ds)
             t == ds[L] * m + carry
         IN  MulCarry(SubSeq(ds, 1, L - 1), m, t \div 10) \o <<t % 10>>

\* Decimal(m) * x for an integer m >= 0
DecTimesInt(m, x) ==
    DecRound(StripZeros(MulCarry(x.digs, m, 0)), x.scale, FALSE)

\* int(x): truncation toward zero of a non-negative Decimal
DecToInt(x) ==
    IF Len(x.digs) <= x.scale THEN 0
    ELSE DigitsToInt(SubSeq(x.digs, 1, Len(x.digs) - x.scale))

\* ------------------------------------------------------------------------
\* TWABService._compute_hash_powers_sync: one HashPowerInfo per wallet of
\* wallet_balances whose TWAB passes the minimum filter, sorted by hash
\* power descending.
\* Hash power is TWAB x tier multiplier; wallets are at tier 1 (x 1.0).
\* ------------------------------------------------------------------------
RECURSIVE InsertDesc(_, _)
InsertDesc(s, x) ==
    IF s = <<>> THEN <<x>>
    ELSE IF Head(s).hash_power >= x.hash_power
         THEN <<Head(s)>> \o InsertDesc(Tail(s), x)
         ELSE <<x>> \o s

\* list.sort(key=hash_power, reverse=True): stable, ties keep their order
RECURSIVE SortDesc(_)
SortDesc(s) ==
    IF s = <<>> THEN <<>>
    ELSE InsertDesc(SortDesc(SubSeq(s, 1, Len(s) - 1)), s[Len(s)])

RECURSIVE HashPowersFrom(_, _, _)
HashPowersFrom(i, tw, min_balance) ==
    IF i > Len(Wallets) THEN <<>>
    ELSE (IF Wallets[i] \notin DOMAIN tw \/ tw[Wallets[i]] < min_balance THEN <<>>
          ELSE <<[wallet |-> Wallets[i], hash_power |-> tw[Wallets[i]]]>>)
         \o HashPowersFrom(i + 1, tw, min_balance)

ComputeHashPowers(tw, min_balance) == SortDesc(HashPowersFrom(1, tw, min_balance))

\* ------------------------------------------------------------------------
\* DistributionService.calculate_distribution
\* ------------------------------------------------------------------------
RECURSIVE SumHashPower(_)
SumHashPower(s) ==
    IF s = <<>> THEN 0 ELSE Head(s).hash_power + SumHashPower(Tail(s))

RECURSIVE SumAmount(_)
SumAmount(s) ==
    IF s = <<>> THEN 0 ELSE Head(s).amount + SumAmount(Tail(s))

\* None
NoPlan == [valid |-> FALSE, pool_amount |-> 0, total_hashpower |-> 0,
           recipient_count |-> 0, recipients |-> <<>>]

\* amount = int(Decimal(pool_amount) * (hp.hash_power / total_hp))
TruncatedAmount(pool_amount, hash_power, total_hp) ==
    DecToInt(DecTimesInt(pool_amount, DecDivide(hash_power, total_hp)))

\* first pass: one RecipientShare per hash power entry, truncated amounts
FirstPass(pool_amount, hash_powers, total_hp) ==
    [i \in 1..Len(hash_powers) |->
        [wallet     |-> hash_powers[i].wallet,
         hash_power |-> hash_powers[i].hash_power,
         amount     |-> TruncatedAmount(pool_amount, hash_powers[i].hash_power,
                                        total_hp)]]

\* for i in range(remainder): recipients[i % len(recipients)].amount += 1
RECURSIVE DistributeRemainder(_, _, _)
DistributeRemainder(recipients, i, remainder) ==
    IF i >= remainder THEN recipients
    ELSE DistributeRemainder(
             [recipients EXCEPT ![(i % Len(recipients)) + 1].amount = @ + 1],
             i + 1, remainder)

\* (mutant) the sort without reverse=True: the remainder goes to the smallest
SecondPassAscending(pool_amount, recipients) ==
    LET remainder == pool_amount - SumAmount(recipients)
        desc == SortDesc(recipients)
        asc == [i \in 1..Len(desc) |-> desc[Len(desc) + 1 - i]]
    IN  IF remainder > 0 /\ recipients # <<>>
        THEN DistributeRemainder(asc, 0, remainder)
        ELSE recipients

\* (mutant) the truncation loss is not handed out
SecondPassTruncating(pool_amount, recipients) == recipients

\* second pass
SecondPass(pool_amount, recipients) ==
    LET remainder == pool_amount - SumAmount(recipients) IN
    IF remainder > 0 /\ recipients # <<>>
    THEN DistributeRemainder(SortDesc(recipients), 0, remainder)
    ELSE recipients

\* (mutant) the plan keeps the recipients whose amount is 0
DropZeroAmountsKeepingAll(recipients) == recipients

\* recipients = [r for r in recipients if r.amount > 0]
DropZeroAmounts(recipients) ==
    LET Positive(r) == r.amount > 0 IN SelectSeq(recipients, Positive)

\* (mutant) the empty pool passes the first guard
CalculateDistributionZeroPool(pool_amount, hash_powers) ==
    IF pool_amount < 0 THEN NoPlan
    ELSE IF hash_powers = <<>> THEN NoPlan
    ELSE LET total_hp == SumHashPower(hash_powers) IN
         IF total_hp <= 0 THEN NoPlan
         ELSE LET recipients ==
                     DropZeroAmounts(
                         SecondPass(pool_amount,
                                    FirstPass(pool_amount, hash_powers, total_hp)))
              IN  [valid           |-> TRUE,
                   pool_amount     |-> pool_amount,
                   total_hashpower |-> total_hp,
                   recipient_count |-> Len(recipients),
                   recipients      |-> recipients]

CalculateDistribution(pool_amount, hash_powers) ==
    IF pool_amount <= 0 THEN NoPlan
    ELSE IF hash_powers = <<>> THEN NoPlan
    ELSE LET total_hp == SumHashPower(hash_powers) IN
         IF total_hp <= 0 THEN NoPlan
         ELSE LET recipients ==
                     DropZeroAmounts(
                         SecondPass(pool_amount,
                                    FirstPass(pool_amount, hash_powers, total_hp)))
              IN  [valid           |-> TRUE,
                   pool_amount     |-> pool_amount,
                   total_hashpower |-> total_hp,
                   recipient_count |-> Len(recipients),
                   recipients      |-> recipients]

\* ------------------------------------------------------------------------
\* State
\* ------------------------------------------------------------------------
VARIABLES
    twab,             \* wallet with snapshot rows -> its TWAB of the period
    minBalance,       \* min_balance handed to calculate_all_hash_powers
    poolBalance,      \* balance of the airdrop pool wallet
    credentials,      \* airdrop_pool_private_key and gold_token_mint are set
    lockHolders,      \* sessions whose transaction holds the DistributionLock row
    distributions,    \* committed Distribution rows
    recipientRows,    \* committed DistributionRecipient rows, in id order
    totalDistributed, \* SystemStats.total_distributed
    submitted,        \* transfers the network accepted: [sig, to, amount, by]
    pc,               \* worker -> position in its task
    kind,             \* worker -> task it runs
    acquired,         \* worker -> result of its acquire_distribution_lock call
    poolArg,          \* worker -> pool_amount its calculate_distribution used
    plan,             \* worker -> DistributionPlan or NoPlan
    idx,              \* worker -> index of the next recipient to transfer to
    results,          \* worker -> transfer_results (wallet -> reference or None)
    confirm,          \* worker -> batch confirmation state per pending reference
    polls,            \* worker -> polls made by batch_confirm_transactions
    ret,              \* worker -> outcome of the task
    statuses,         \* worker -> last getSignatureStatuses answer (polled reference -> status)
    signaturesArg,    \* worker -> signatures handed to batch_confirm_transactions
    amountArg,        \* worker -> amount handed to send_* (recipients for a batch)
    attempt,          \* worker -> attempt of the submission loop of send_*
    blockhash,        \* worker -> blockhash_str of the attempt: the fetch it came from
    rpcCalls,         \* worker -> network calls of the send_* call, in order
    txResult,         \* worker -> TransactionResult of the send_* call
    recipientArg,     \* worker -> id of the row handed to retry_failed_transfer
    plannedArg,       \* worker -> planned_amount handed to retry_failed_transfer
    creatorRewards,   \* committed CreatorReward rows, in id order
    rewardArg,        \* worker -> arguments of its record_creator_reward call
    existing,         \* worker -> result of the idempotency select
    returned,         \* worker -> CreatorReward returned by record_creator_reward
    delivery,         \* worker -> outcome of the sio.emit of its notification
    balancesArg,      \* worker -> balances handed to _compute_twab: (timestamp, balance)
    windowArg,        \* worker -> start and end handed to _compute_twab
    twabRet,          \* worker -> value _compute_twab returned
    weightsArg,       \* worker -> query rows, exclusions, min_balance and limit of calculate_all_hash_powers
    hashPowers,       \* worker -> list calculate_all_hash_powers returned
    redisMode,        \* settings.redis_url and the server: unconfigured, unreachable or reachable
    redisKeys,        \* task ids whose key buyback:processed:<id> is set in Redis
    taskId,           \* worker -> id of the Celery task it runs (self.request.id)
    walletsConfig,    \* which of the creator key, algo bot and team wallets are set
    buybacks,         \* committed Buyback rows, in id order
    totalBuybacks,    \* SystemStats.total_buybacks, in hundredths of a SOL
    passRewards,      \* worker -> ids of the rewards its process_pending_rewards read
    poolTransfer,     \* worker -> pool_transfer_tx and pool_transfer_confirmed
    swapResult,       \* worker -> BuybackResult of the pass
    sideTx,           \* worker -> algo_bot_tx and team_tx
    quote,            \* worker -> JupiterQuote of execute_swap: its fetched_at
    now,              \* worker -> utc_now() in its execute_swap call, in seconds
    jupiterCalls      \* worker -> calls of execute_swap to Jupiter, in order

sendLocals == <<amountArg, attempt, blockhash, rpcCalls, txResult>>
retryLocals == <<recipientArg, plannedArg>>
rewards == <<creatorRewards, rewardArg, existing, returned>>
twabLocals == <<balancesArg, windowArg, twabRet, weightsArg, hashPowers>>
buybackLedger == <<buybacks, totalBuybacks>>
passLocals == <<passRewards, poolTransfer, swapResult, sideTx>>
swapLocals == <<quote, now, jupiterCalls>>
taskLocals == <<redisMode, redisKeys, taskId>>
buyback == <<buybackLedger, passLocals, swapLocals, taskLocals>>
helpers == <<signaturesArg, sendLocals, retryLocals, rewards, twabLocals, buyback>>

vars == <<twab, minBalance, poolBalance, credentials, lockHolders,
          distributions, recipientRows, totalDistributed, submitted,
          pc, kind, acquired, poolArg, plan, idx, results, confirm, polls, ret,
          statuses, delivery, helpers>>

env == <<twab, minBalance, poolBalance, credentials, walletsConfig>>
ledger == <<distributions, recipientRows, totalDistributed>>

WorkerNo(w) == IF w = "w1" THEN 1 ELSE 2
DistId(w) == WorkerNo(w)                 \* Distribution.id of the run of w
Sig(w, i) == 10 * WorkerNo(w) + i        \* reference of w's i-th transfer

EmptyDict == [x \in {} |-> NoSig]

\* dict.get(key): None when the key is missing
Get(d, key) == IF key \in DOMAIN d THEN d[key] ELSE NoSig

\* dict[key] = value
Put(d, key, value) ==
    [x \in DOMAIN d \cup {key} |-> IF x = key THEN value ELSE d[x]]

\* an int of any size: its sign and its decimal digits
Amount(n) == [neg |-> n < 0, digs |-> IntToDigits(IF n < 0 THEN -n ELSE n)]
NoHash == 0                              \* no blockhash fetched yet
\* no TransactionResult yet
NoResult == [success |-> FALSE, signature |-> NoSig, error |-> <<>>]
\* None where a CreatorReward is expected
NoReward == [id |-> 0]
NoWindow == [start |-> 0, end |-> 0]     \* no _compute_twab call yet
\* no calculate_all_hash_powers call yet
NoWeightsArg == [rows |-> <<>>, excluded |-> {}, min_balance |-> 0, limit |-> 0]
\* creator_wallet_private_key, algo_bot_wallet_public_key, team_wallet_public_key
AllConfigured == [creator |-> TRUE, algo_bot |-> TRUE, team |-> TRUE]
\* pool_transfer_tx = None, pool_transfer_confirmed = False
NoPoolTransfer == [tx |-> NoSig, confirmed |-> FALSE]
\* no BuybackResult yet
NoBuybackResult == [success |-> FALSE, tx_signature |-> NoSig, sol_spent |-> 0,
                    error |-> "none"]
\* algo_bot_tx = None, team_tx = None
NoSideTx == [algo_bot_tx |-> NoSig, team_tx |-> NoSig]
NoQuote == [fetched_at |-> -1]           \* quote is None
NoTask == 0                              \* the worker runs no Celery buyback task

WorkersIdle ==
    /\ pc = [w \in Workers |-> "idle"]
    /\ kind = [w \in Workers |-> "none"]
    /\ acquired = [w \in Workers |-> "none"]
    /\ poolArg = [w \in Workers |-> 0]
    /\ plan = [w \in Workers |-> NoPlan]
    /\ idx = [w \in Workers |-> 0]
    /\ results = [w \in Workers |-> EmptyDict]
    /\ confirm = [w \in Workers |-> EmptyDict]
    /\ polls = [w \in Workers |-> 0]
    /\ ret = [w \in Workers |-> "none"]
    /\ statuses = [w \in Workers |-> EmptyDict]
    /\ signaturesArg = [w \in Workers |-> {}]
    /\ amountArg = [w \in Workers |-> Amount(0)]
    /\ attempt = [w \in Workers |-> 0]
    /\ blockhash = [w \in Workers |-> NoHash]
    /\ rpcCalls = [w \in Workers |-> <<>>]
    /\ txResult = [w \in Workers |-> NoResult]
    /\ recipientArg = [w \in Workers |-> 0]
    /\ plannedArg = [w \in Workers |-> 0]
    /\ rewardArg = [w \in Workers |-> NoReward]
    /\ existing = [w \in Workers |-> NoReward]
    /\ returned = [w \in Workers |-> NoReward]
    /\ delivery = [w \in Workers |-> "none"]
    /\ balancesArg = [w \in Workers |-> <<>>]
    /\ windowArg = [w \in Workers |-> NoWindow]
    /\ twabRet = [w \in Workers |-> 0]
    /\ weightsArg = [w \in Workers |-> NoWeightsArg]
    /\ hashPowers = [w \in Workers |-> <<>>]
    /\ passRewards = [w \in Workers |-> {}]
    /\ poolTransfer = [w \in Workers |-> NoPoolTransfer]
    /\ swapResult = [w \in Workers |-> NoBuybackResult]
    /\ sideTx = [w \in Workers |-> NoSideTx]
    /\ quote = [w \in Workers |-> NoQuote]
    /\ now = [w \in Workers |-> 0]
    /\ jupiterCalls = [w \in Workers |-> <<>>]
    /\ redisKeys = {}
    /\ taskId = [w \in Workers |-> NoTask]

EmptyLedger ==
    /\ lockHolders = {}
    /\ distributions = {}
    /\ recipientRows = <<>>
    /\ totalDistributed = 0
    /\ submitted = {}
    /\ creatorRewards = <<>>
    /\ buybacks = <<>>
    /\ totalBuybacks = 0

\* settlement runs: the snapshots of the period hold two wallets
Init ==
    /\ twab \in [RunWallets -> 0..MaxRunWeight]
    /\ minBalance = 0
    /\ poolBalance \in 0..MaxRunPool
    /\ credentials \in BOOLEAN
    /\ walletsConfig = AllConfigured
    /\ redisMode = "reachable"
    /\ EmptyLedger
    /\ WorkersIdle

\* calls of the helpers on their own: nothing settled yet
InitCalls ==
    /\ twab = [w \in RunWallets |-> 0]
    /\ minBalance = 0
    /\ poolBalance = 0
    /\ credentials \in BOOLEAN
    /\ walletsConfig = AllConfigured
    /\ redisMode = "reachable"
    /\ EmptyLedger
    /\ WorkersIdle

\* planner inputs
InitPlan ==
    /\ twab \in [WalletSet -> 0..MaxWeight]
    /\ minBalance \in {0, 1}
    /\ poolBalance \in 0..MaxPool
    /\ credentials = TRUE
    /\ walletsConfig = AllConfigured
    /\ redisMode = "reachable"
    /\ EmptyLedger
    /\ WorkersIdle

\* ------------------------------------------------------------------------
\* Session scope and the lock row
\* ------------------------------------------------------------------------
\* (mutant) a session that outlives the run keeps its transaction open
KeepTransaction(holders, w) == holders

\* db.commit() / db.rollback() / leaving "async with session_maker() as db":
\* the transaction of w ends and its row locks are released
EndTransaction(holders, w) == holders \ {w}

\* (mutant) a plain SELECT of the lock row: never fails
AcquireWithoutRowLock(holders, w) == [ok |-> TRUE, holders |-> holders \cup {w}]

\* SELECT ... FOR UPDATE NOWAIT on the lock row: True and the row lock when
\* no other transaction holds it, False (lock_not_available) otherwise
AcquireDistributionLock(holders, w) ==
    IF holders \subseteq {w}
    THEN [ok |-> TRUE, holders |-> holders \cup {w}]
    ELSE [ok |-> FALSE, holders |-> holders]

\* ------------------------------------------------------------------------
\* Trigger policy
\* ------------------------------------------------------------------------
DistributionThresholdUsd == 250
DistributionMaxHours == 24
NoHours == -1        \* hours_since is None: no previous distribution

\* get_pool_status: the two trigger checks
ThresholdMet(value_usd) == value_usd >= DistributionThresholdUsd
TimeTriggerMet(hours_since) ==
    hours_since = NoHours \/ hours_since >= DistributionMaxHours

\* should_distribute
ShouldDistribute(value_usd, hours_since) ==
    IF ThresholdMet(value_usd) THEN [should |-> TRUE, trigger |-> "threshold"]
    ELSE IF TimeTriggerMet(hours_since) THEN [should |-> TRUE, trigger |-> "time"]
    ELSE [should |-> FALSE, trigger |-> ""]

\* ------------------------------------------------------------------------
\* Ledger rows
\* ------------------------------------------------------------------------
\* (mutant) the planned amount is recorded whatever the transfer result
RecipientDataPlannedAmount(dist_id, recipients, transfer_results) ==
    [i \in 1..Len(recipients) |->
        [distribution_id |-> dist_id,
         wallet          |-> recipients[i].wallet,
         hash_power      |-> recipients[i].hash_power,
         amount_received |-> recipients[i].amount,
         tx_signature    |-> Get(transfer_results, recipients[i].wallet)]]

\* execute_distribution: recipient_data, one dict per planned recipient
RecipientData(dist_id, recipients, transfer_results) ==
    [i \in 1..Len(recipients) |->
        [distribution_id |-> dist_id,
         wallet          |-> recipients[i].wallet,
         hash_power      |-> recipients[i].hash_power,
         amount_received |-> IF Get(transfer_results, recipients[i].wallet) # NoSig
                             THEN recipients[i].amount ELSE 0,
         tx_signature    |-> Get(transfer_results, recipients[i].wallet)]]

\* (mutant) the distribution_id filter is not applied
GetFailedTransfersUnfiltered(rows, distribution_id) ==
    LET Failed(r) == r.tx_signature = NoSig IN SelectSeq(rows, Failed)

\* get_failed_transfers(distribution_id): rows with tx_signature NULL, of
\* that distribution when an id is given (0: no id), ordered by row id
GetFailedTransfers(rows, distribution_id) ==
    LET Failed(r) == /\ r.tx_signature = NoSig
                     /\ (distribution_id # 0 => r.distribution_id = distribution_id)
    IN  SelectSeq(rows, Failed)

\* ------------------------------------------------------------------------
\* Tasks.  kind "hourly": _check_distribution_triggers, "check":
\* check_and_distribute, "force": _force_distribution; each runs in its own
\* session, which is closed when the task returns or raises.
\* ------------------------------------------------------------------------
Kinds == {"hourly", "check", "force"}

Goto(w, label) == pc' = [pc EXCEPT ![w] = label]
Return(w, outcome) ==
    /\ ret' = [ret EXCEPT ![w] = outcome]
    /\ Goto(w, "close")

Start(w, k) ==
    /\ pc[w] = "idle"
    /\ kind' = [kind EXCEPT ![w] = k]
    /\ Goto(w, CASE k = "hourly" -> "status"
                 [] k = "check"  -> "acquire"
                 [] k = "force"  -> "plan")
    /\ UNCHANGED <<env, delivery, helpers, statuses, lockHolders, ledger, submitted, acquired, poolArg,
                   plan, idx, results, confirm, polls, ret>>

\* _check_distribution_triggers: get_pool_status, skip when the pool is empty
HourlyStatus(w) ==
    /\ pc[w] = "status"
    /\ IF poolBalance <= 0
       THEN Return(w, "skipped_pool_empty")
       ELSE Goto(w, "acquire") /\ UNCHANGED ret
    /\ UNCHANGED <<env, delivery, helpers, statuses, lockHolders, ledger, submitted, kind, acquired,
                   poolArg, plan, idx, results, confirm, polls>>

\* (mutant) the caller does not branch on the result of the acquisition
AcquireIgnoringResult(w) ==
    /\ pc[w] = "acquire"
    /\ LET r == AcquireDistributionLock(lockHolders, w) IN
       /\ lockHolders' = r.holders
       /\ acquired' = [acquired EXCEPT ![w] = IF r.ok THEN "true" ELSE "false"]
       /\ Goto(w, IF kind[w] = "hourly" THEN "plan" ELSE "trigger")
    /\ UNCHANGED <<env, delivery, helpers, statuses, ledger, submitted, kind, poolArg, plan, idx, results,
                   confirm, polls, ret>>

\* acquire_distribution_lock and the caller's branch on its result
Acquire(w) ==
    /\ pc[w] = "acquire"
    /\ \/ LET r == AcquireDistributionLock(lockHolders, w) IN
          /\ lockHolders' = r.holders
          /\ acquired' = [acquired EXCEPT ![w] = IF r.ok THEN "true" ELSE "false"]
          /\ IF r.ok
             THEN /\ Goto(w, IF kind[w] = "hourly" THEN "plan" ELSE "trigger")
                  /\ UNCHANGED ret
             ELSE Return(w, "skipped_locked")
       \/ \* an OperationalError other than lock_not_available is re-raised
          /\ acquired' = [acquired EXCEPT ![w] = "raised"]
          /\ Return(w, "error")
          /\ UNCHANGED lockHolders
    /\ UNCHANGED <<env, delivery, helpers, statuses, ledger, submitted, kind, poolArg, plan, idx, results,
                   confirm, polls>>

\* check_and_distribute: should_distribute; commit when not triggered
Trigger(w) ==
    /\ pc[w] = "trigger"
    /\ \E value_usd \in (IF poolBalance > 0 THEN {0, DistributionThresholdUsd} ELSE {0}),
          hours \in {0, DistributionMaxHours} :
          LET hours_since == IF distributions = {} THEN NoHours ELSE hours
              s == ShouldDistribute(value_usd, hours_since)
          IN  IF s.should
              THEN Goto(w, "plan") /\ UNCHANGED <<ret, lockHolders>>
              ELSE /\ lockHolders' = EndTransaction(lockHolders, w)
                   /\ Return(w, "not_triggered")
    /\ UNCHANGED <<env, delivery, helpers, statuses, ledger, submitted, kind, acquired, poolArg, plan, idx,
                   results, confirm, polls>>

\* plan = await service.calculate_distribution(); no plan: commit and return
PlanStep(w) ==
    /\ pc[w] = "plan"
    /\ \/ \* a query of calculate_distribution raises: the exception leaves
          \* the run without a commit or rollback
          /\ Return(w, "error")
          /\ UNCHANGED <<plan, poolArg, lockHolders>>
       \/ LET p == CalculateDistribution(poolBalance,
                                         ComputeHashPowers(twab, minBalance)) IN
          /\ plan' = [plan EXCEPT ![w] = p]
          /\ poolArg' = [poolArg EXCEPT ![w] = poolBalance]
          /\ IF p.valid
             THEN Goto(w, "exec_begin") /\ UNCHANGED <<ret, lockHolders>>
             ELSE /\ Return(w, "no_plan")
                  /\ lockHolders' = IF kind[w] = "force" THEN lockHolders
                                    ELSE EndTransaction(lockHolders, w)
    /\ UNCHANGED <<env, delivery, helpers, statuses, ledger, submitted, kind, acquired, idx, results,
                   confirm, polls>>

\* execute_distribution: add the Distribution and flush; then the transfers,
\* or none when a credential is missing
ExecBegin(w) ==
    /\ pc[w] = "exec_begin"
    /\ \/ /\ IF credentials /\ plan[w].recipients # <<>>
             THEN Goto(w, "transfer")
             ELSE Goto(w, "record")
          /\ idx' = [idx EXCEPT ![w] = 1]
          /\ UNCHANGED <<ret, lockHolders>>
       \/ \* the flush raises: rollback, return None
          /\ lockHolders' = EndTransaction(lockHolders, w)
          /\ Return(w, "failed")
          /\ UNCHANGED idx
    /\ UNCHANGED <<env, delivery, helpers, statuses, ledger, submitted, kind, acquired, poolArg, plan,
                   results, confirm, polls>>

SentSigs(w) == {results[w][x] : x \in DOMAIN results[w]} \ {NoSig}
Pending(w) == {s \in DOMAIN confirm[w] : confirm[w][s] = "pending"}

\* (mutant) a failed transfer leaves no entry in results
TransferSkippingFailed(w) ==
    /\ pc[w] = "transfer"
    /\ LET r == plan[w].recipients[idx[w]] IN
       \E sent \in BOOLEAN :
          /\ results' = [results EXCEPT ![w] =
                            IF sent THEN Put(@, r.wallet, Sig(w, idx[w])) ELSE @]
          /\ submitted' = IF sent
                          THEN submitted \cup {[sig |-> Sig(w, idx[w]), to |-> r.wallet,
                                                amount |-> r.amount, by |-> w]}
                          ELSE submitted
    /\ idx' = [idx EXCEPT ![w] = @ + 1]
    /\ IF idx[w] < Len(plan[w].recipients)
       THEN UNCHANGED <<pc, confirm>>
       ELSE LET sigs == {results'[w][x] : x \in DOMAIN results'[w]} \ {NoSig} IN
            /\ confirm' = [confirm EXCEPT ![w] = [s \in sigs |-> "pending"]]
            /\ Goto(w, IF sigs # {} THEN "confirm" ELSE "record")
    /\ UNCHANGED <<env, delivery, helpers, statuses, lockHolders, ledger, kind, acquired, poolArg, plan,
                   polls, ret>>

\* (mutant) a failed transfer raises out of the loop: rollback, return None
TransferAbortingOnFailure(w) ==
    /\ pc[w] = "transfer"
    /\ LET r == plan[w].recipients[idx[w]] IN
       \E sent \in BOOLEAN :
          IF sent
          THEN /\ results' = [results EXCEPT ![w] = Put(@, r.wallet, Sig(w, idx[w]))]
               /\ submitted' = submitted \cup {[sig |-> Sig(w, idx[w]), to |-> r.wallet,
                                                 amount |-> r.amount, by |-> w]}
               /\ idx' = [idx EXCEPT ![w] = @ + 1]
               /\ UNCHANGED <<lockHolders, ret>>
               /\ IF idx[w] < Len(plan[w].recipients)
                  THEN UNCHANGED <<pc, confirm>>
                  ELSE /\ confirm' = [confirm EXCEPT ![w] =
                                         [s \in {results'[w][x] : x \in DOMAIN results'[w]}
                                             |-> "pending"]]
                       /\ Goto(w, "confirm")
          ELSE /\ lockHolders' = EndTransaction(lockHolders, w)
               /\ Return(w, "failed")
               /\ UNCHANGED <<results, submitted, idx, confirm>>
    /\ UNCHANGED <<env, delivery, helpers, statuses, ledger, kind, acquired, poolArg, plan, polls>>

\* _execute_token_transfers: one iteration of the sequential loop
Transfer(w) ==
    /\ pc[w] = "transfer"
    /\ LET r == plan[w].recipients[idx[w]] IN
       \E sent \in BOOLEAN :
          /\ results' = [results EXCEPT ![w] =
                            Put(@, r.wallet, IF sent THEN Sig(w, idx[w]) ELSE NoSig)]
          /\ submitted' = IF sent
                          THEN submitted \cup {[sig |-> Sig(w, idx[w]), to |-> r.wallet,
                                                amount |-> r.amount, by |-> w]}
                          ELSE submitted
    /\ idx' = [idx EXCEPT ![w] = @ + 1]
    /\ IF idx[w] < Len(plan[w].recipients)
       THEN UNCHANGED <<pc, confirm>>
       ELSE LET sigs == {results'[w][x] : x \in DOMAIN results'[w]} \ {NoSig} IN
            /\ confirm' = [confirm EXCEPT ![w] = [s \in sigs |-> "pending"]]
            /\ Goto(w, IF sigs # {} THEN "confirm" ELSE "record")
    /\ UNCHANGED <<env, delivery, helpers, statuses, lockHolders, ledger, kind, acquired, poolArg, plan,
                   polls, ret>>

\* what getSignatureStatuses answers for one reference: null, or a status
\* with its confirmationStatus and err
NoStatus == [confirmationStatus |-> "none", err |-> FALSE]
SignatureStatuses ==
    {NoStatus} \cup
    [confirmationStatus : {"processed", "confirmed", "finalized"}, err : BOOLEAN]

\* batch_confirm_transactions: the entry of a polled reference after its
\* status was read
ResolveStatus(status) ==
    IF status = NoStatus
    THEN "pending"
    ELSE IF status.confirmationStatus \in {"confirmed", "finalized"}
         THEN IF ~status.err THEN "confirmed" ELSE "failed"
         ELSE "pending"

\* batch_confirm_transactions: the results of one poll, every polled
\* reference resolved by its status
Resolved(conf, answer) ==
    [s \in DOMAIN conf |->
        IF s \in DOMAIN answer THEN ResolveStatus(answer[s]) ELSE conf[s]]

\* batch_confirm_transactions inside _execute_token_transfers: one iteration
\* of "while pending and not timed out", a single getSignatureStatuses call
\* for the pending references
ConfirmPoll(w) ==
    /\ pc[w] = "confirm"
    /\ Pending(w) # {} /\ polls[w] < MaxPolls
    /\ \/ \E answer \in [Pending(w) -> SignatureStatuses] :
             confirm' = [confirm EXCEPT ![w] = Resolved(@, answer)]
       \/ \* the poll raises: logged, nothing resolved
          UNCHANGED confirm
    /\ polls' = [polls EXCEPT ![w] = @ + 1]
    /\ UNCHANGED <<env, delivery, helpers, statuses, lockHolders, ledger, submitted, pc,
                   kind, acquired, poolArg, plan, idx, results, ret>>

\* (mutant) the caller clears the reference of every unconfirmed transfer
ConfirmReturnClearingUnconfirmed(w) ==
    /\ pc[w] = "confirm"
    /\ Pending(w) = {} \/ polls[w] >= 1
    /\ results' = [results EXCEPT ![w] =
          [x \in DOMAIN @ |->
              IF Get(confirm[w], @[x]) = "confirmed" THEN @[x] ELSE NoSig]]
    /\ polls' = [polls EXCEPT ![w] = 0]
    /\ Goto(w, "record")
    /\ UNCHANGED <<env, delivery, helpers, statuses, lockHolders, ledger, submitted, kind,
                   acquired, poolArg, plan, idx, confirm, ret>>

\* batch_confirm_transactions leaves its loop, nothing pending or the timeout
\* elapsed (a poll can last as long as the timeout), and returns its results;
\* the caller only logs the unconfirmed references and keeps them
ConfirmReturn(w) ==
    /\ pc[w] = "confirm"
    /\ Pending(w) = {} \/ polls[w] >= 1
    /\ polls' = [polls EXCEPT ![w] = 0]
    /\ Goto(w, "record")
    /\ UNCHANGED <<env, delivery, helpers, statuses, lockHolders, ledger, submitted, kind,
                   acquired, poolArg, plan, idx, results, confirm, ret>>

\* execute_distribution: bulk insert of the recipient rows, stats update, commit
Record(w) ==
    /\ pc[w] = "record"
    /\ \/ /\ distributions' = distributions \cup
                 {[id |-> DistId(w), pool_amount |-> plan[w].pool_amount,
                   recipient_count |-> plan[w].recipient_count]}
          /\ recipientRows' = recipientRows \o
                 RecipientData(DistId(w), plan[w].recipients, results[w])
          /\ totalDistributed' = totalDistributed + plan[w].pool_amount
          /\ Goto(w, "emit")
          /\ UNCHANGED ret
       \/ \* insert, stats update or commit raises: rollback, return None
          /\ Return(w, "failed")
          /\ UNCHANGED ledger
    /\ lockHolders' = EndTransaction(lockHolders, w)
    /\ UNCHANGED <<env, delivery, helpers, statuses, submitted, kind, acquired, poolArg, plan, idx,
                   results, confirm, polls>>

\* (mutant) broadcast_global without its try/except: a failed sio.emit raises
BroadcastGlobalUnguarded(delivered) == [raised |-> ~delivered]

\* broadcast_global: sio.emit inside try/except Exception; a delivery
\* failure is logged and the call returns
BroadcastGlobal(delivered) == [raised |-> FALSE]

\* execute_distribution after its commit: emit_distribution_executed, then
\* return the Distribution; an exception of the emit is caught by the
\* handler of execute_distribution (rollback, return None)
Emit(w) ==
    /\ pc[w] = "emit"
    /\ \E delivered \in BOOLEAN :
          /\ delivery' = [delivery EXCEPT ![w] = IF delivered THEN "sent" ELSE "failed"]
          /\ IF BroadcastGlobal(delivered).raised
             THEN Return(w, "failed")
             ELSE Return(w, "success")
    /\ UNCHANGED <<env, helpers, statuses, lockHolders, ledger, submitted, kind, acquired,
                   poolArg, plan, idx, results, confirm, polls>>

\* leaving "async with session_maker() as db": the session is closed and the
\* task returns, its locals go out of scope
Close(w) ==
    /\ pc[w] = "close"
    /\ lockHolders' = EndTransaction(lockHolders, w)
    /\ Goto(w, "done")
    /\ poolArg' = [poolArg EXCEPT ![w] = 0]
    /\ plan' = [plan EXCEPT ![w] = NoPlan]
    /\ idx' = [idx EXCEPT ![w] = 0]
    /\ results' = [results EXCEPT ![w] = EmptyDict]
    /\ confirm' = [confirm EXCEPT ![w] = EmptyDict]
    /\ polls' = [polls EXCEPT ![w] = 0]
    /\ delivery' = [delivery EXCEPT ![w] = "none"]
    /\ UNCHANGED <<env, helpers, statuses, ledger, submitted, kind, acquired, ret>>

Next ==
    \E w \in Workers :
        \/ \E k \in Kinds : Start(w, k)
        \/ HourlyStatus(w)
        \/ Acquire(w)
        \/ Trigger(w)
        \/ PlanStep(w)
        \/ ExecBegin(w)
        \/ Transfer(w)
        \/ ConfirmPoll(w)
        \/ ConfirmReturn(w)
        \/ Record(w)
        \/ Emit(w)
        \/ Close(w)

Spec == Init /\ [][Next]_vars

\* a started task runs to its end: its loops are bounded and the event loop
\* keeps scheduling the coroutine
WorkerStep(w) ==
    \/ HourlyStatus(w) \/ Acquire(w) \/ Trigger(w) \/ PlanStep(w)
    \/ ExecBegin(w) \/ Transfer(w) \/ ConfirmPoll(w) \/ ConfirmReturn(w)
    \/ Record(w)
    \/ Emit(w) \/ Close(w)

\* snapshots for the fair runs: every wallet either below or at the top
\* weight, the pool either empty or full
InitFair ==
    /\ twab \in [RunWallets -> {0, MaxRunWeight}]
    /\ minBalance = 0
    /\ poolBalance \in {0, MaxRunPool}
    /\ credentials \in BOOLEAN
    /\ walletsConfig = AllConfigured
    /\ redisMode = "reachable"
    /\ EmptyLedger
    /\ WorkersIdle

FairSpec ==
    InitFair /\ [][Next]_vars /\ \A w \in Workers : WF_vars(WorkerStep(w))

\* ------------------------------------------------------------------------
\* The planner on its own: _get_distribution_preview (pool from the chain)
\* and calculate_distribution(pool_amount) with an explicit amount
\* ------------------------------------------------------------------------
Preview(w) ==
    /\ pc[w] = "idle"
    /\ kind' = [kind EXCEPT ![w] = "preview"]
    /\ poolArg' = [poolArg EXCEPT ![w] = poolBalance]
    /\ plan' = [plan EXCEPT ![w] =
                   CalculateDistribution(poolBalance,
                                         ComputeHashPowers(twab, minBalance))]
    /\ Goto(w, "done")
    /\ UNCHANGED <<env, delivery, helpers, statuses, lockHolders, ledger, submitted, acquired, idx,
                   results, confirm, polls, ret>>

PreviewAmount(w, pool_amount) ==
    /\ pc[w] = "idle"
    /\ kind' = [kind EXCEPT ![w] = "preview"]
    /\ poolArg' = [poolArg EXCEPT ![w] = pool_amount]
    /\ plan' = [plan EXCEPT ![w] =
                   CalculateDistribution(pool_amount,
                                         ComputeHashPowers(twab, minBalance))]
    /\ Goto(w, "done")
    /\ UNCHANGED <<env, delivery, helpers, statuses, lockHolders, ledger, submitted, acquired, idx,
                   results, confirm, polls, ret>>

NextPlan ==
    \E w \in Workers :
        \/ Preview(w)
        \/ \E pool_amount \in -1..MaxPool : PreviewAmount(w, pool_amount)

SpecPlan == InitPlan /\ [][NextPlan]_vars

\* ------------------------------------------------------------------------
\* batch_confirm_transactions on its own: one call at a time, the calls
\* share no state
\* ------------------------------------------------------------------------
Signatures(w) == {Sig(w, i) : i \in 1..MaxSigs}
OthersIdle(w) == \A v \in Workers \ {w} : pc[v] = "idle"

\* the dict batch_confirm_transactions returns
ConfirmationResults(conf) == [s \in DOMAIN conf |-> conf[s] = "confirmed"]

\* results = {sig: False ...}, pending = set(signatures); {} for no signature
BatchConfirmStart(w, signatures) ==
    /\ pc[w] = "idle" /\ OthersIdle(w)
    /\ kind' = [kind EXCEPT ![w] = "batch_confirm"]
    /\ signaturesArg' = [signaturesArg EXCEPT ![w] = signatures]
    /\ confirm' = [confirm EXCEPT ![w] = [s \in signatures |-> "pending"]]
    /\ Goto(w, IF signatures = {} THEN "done" ELSE "batch_confirm")
    /\ UNCHANGED <<env, delivery, twabLocals, buyback, sendLocals, retryLocals, rewards, statuses, lockHolders,
                   ledger, submitted, acquired, poolArg, plan, idx, results,
                   polls, ret>>

\* (mutant) every signature is polled again and its entry overwritten
BatchConfirmPollAll(w) ==
    /\ pc[w] = "batch_confirm"
    /\ Pending(w) # {} /\ polls[w] < MaxPolls
    /\ \/ \E answer \in [DOMAIN confirm[w] -> SignatureStatuses] :
             /\ statuses' = [statuses EXCEPT ![w] = answer]
             /\ confirm' = [confirm EXCEPT ![w] = Resolved(@, answer)]
       \/ /\ statuses' = [statuses EXCEPT ![w] = EmptyDict]
          /\ UNCHANGED confirm
    /\ polls' = [polls EXCEPT ![w] = @ + 1]
    /\ UNCHANGED <<env, delivery, helpers, lockHolders, ledger, submitted, pc, kind,
                   acquired, poolArg, plan, idx, results, ret>>

\* one iteration of the polling loop; statuses is the answer of this poll,
\* empty when the request raised
BatchConfirmPoll(w) ==
    /\ pc[w] = "batch_confirm"
    /\ Pending(w) # {} /\ polls[w] < MaxPolls
    /\ \/ \E answer \in [Pending(w) -> SignatureStatuses] :
             /\ statuses' = [statuses EXCEPT ![w] = answer]
             /\ confirm' = [confirm EXCEPT ![w] = Resolved(@, answer)]
       \/ \* the poll raises: logged, nothing resolved
          /\ statuses' = [statuses EXCEPT ![w] = EmptyDict]
          /\ UNCHANGED confirm
    /\ polls' = [polls EXCEPT ![w] = @ + 1]
    /\ UNCHANGED <<env, delivery, helpers, lockHolders, ledger, submitted, pc, kind,
                   acquired, poolArg, plan, idx, results, ret>>

\* (mutant) the loop ends only when nothing is pending
BatchConfirmReturnNoTimeout(w) ==
    /\ pc[w] = "batch_confirm"
    /\ Pending(w) = {}
    /\ Goto(w, "done")
    /\ UNCHANGED <<env, delivery, helpers, statuses, lockHolders, ledger, submitted, kind,
                   acquired, poolArg, plan, idx, results, confirm, polls, ret>>

\* the loop ends, nothing pending or the timeout elapsed: return results
BatchConfirmReturn(w) ==
    /\ pc[w] = "batch_confirm"
    /\ Pending(w) = {} \/ polls[w] >= 1
    /\ Goto(w, "done")
    /\ UNCHANGED <<env, delivery, helpers, statuses, lockHolders, ledger, submitted, kind,
                   acquired, poolArg, plan, idx, results, confirm, polls, ret>>

NextConfirm ==
    \E w \in Workers :
        \/ \E signatures \in SUBSET Signatures(w) : BatchConfirmStart(w, signatures)
        \/ BatchConfirmPoll(w)
        \/ BatchConfirmReturn(w)

SpecConfirm == InitCalls /\ [][NextConfirm]_vars

\* the event loop keeps scheduling the coroutine and every sleep and every
\* request (30 s client timeout) ends
FairSpecConfirm ==
    SpecConfirm /\ \A w \in Workers : WF_vars(BatchConfirmPoll(w) \/ BatchConfirmReturn(w))

\* ------------------------------------------------------------------------
\* send_sol_transfer, send_spl_token_transfer and
\* send_batch_spl_token_transfers on their own: one call at a time.
\* rpcCalls is the list of network calls of the call, each with the blockhash
\* it carried (a blockhash is named by the fetch that returned it) and with
\* the answer it got.
\* ------------------------------------------------------------------------
MAX_BLOCKHASH_RETRIES == 2
PowerOfTen(k) == <<1>> \o [i \in 1..k |-> 0]
MAX_SOL_LAMPORTS == PowerOfTen(14)
MAX_TOKEN_AMOUNT == PowerOfTen(18)

SendKinds == {"send_sol_transfer", "send_spl_token_transfer",
              "send_batch_spl_token_transfers"}
MaxAmount(f) == IF f = "send_sol_transfer" THEN MAX_SOL_LAMPORTS ELSE MAX_TOKEN_AMOUNT

\* a > b for digit sequences without leading zeros
DigitsGreater(a, b) ==
    \/ Len(a) > Len(b)
    \/ /\ Len(a) = Len(b)
       /\ \E i \in 1..Len(a) : a[i] > b[i] /\ \A j \in 1..(i - 1) : a[j] = b[j]

\* (mutant) only the sign of the amount is validated
AmountErrorNoMaximum(max, amount) ==
    IF amount.neg \/ ~HasNonZero(amount.digs)
    THEN <<"amount", "must", "be", "positive">>
    ELSE <<>>

\* the amount validation of send_sol_transfer and send_spl_token_transfer:
\* the error of the failure result, <<>> for a valid amount
AmountError(max, amount) ==
    IF amount.neg \/ ~HasNonZero(amount.digs)
    THEN <<"amount", "must", "be", "positive">>
    ELSE IF DigitsGreater(amount.digs, max)
         THEN <<"amount", "exceeds", "maximum">>
         ELSE <<>>

\* amounts handed to a call: around zero and around the maximum
SendAmounts(f) ==
    IF f = "send_batch_spl_token_transfers"
    THEN {Amount(0), Amount(1), Amount(2)}   \* number of recipients
    ELSE {Amount(-1), Amount(0), Amount(1),
          [neg |-> FALSE, digs |-> MaxAmount(f)],
          [neg |-> FALSE, digs |-> Increment(MaxAmount(f))]}

\* error messages in lower case, word by word
BLOCKHASH_ERROR_PATTERNS ==
    {<<"blockhash", "not", "found">>, <<"blockhashnotfound">>,
     <<"block", "height", "exceeded">>, <<"transaction", "simulation", "failed">>}

Contains(msg, pattern) ==
    \E i \in 1..(Len(msg) - Len(pattern) + 1) :
        SubSeq(msg, i, i + Len(pattern) - 1) = pattern

\* _is_blockhash_error
IsBlockhashError(error_msg) ==
    \E pattern \in BLOCKHASH_ERROR_PATTERNS : Contains(error_msg, pattern)

\* messages of JSON-RPC errors the node answers a sendTransaction with
ErrorMessages ==
    {<<"blockhash", "not", "found">>,
     <<"transaction", "simulation", "failed", "blockhash", "not", "found">>,
     <<"transaction", "simulation", "failed", "insufficient", "funds">>,
     <<"invalid", "account", "owner">>}

\* answers to a sendTransaction: a signature, a JSON-RPC error, a body with
\* neither, or an exception (HTTP status, transport)
SubmitAnswers ==
    {[class |-> "result", message |-> <<>>], [class |-> "empty", message |-> <<>>]}
    \cup {[class |-> "error", message |-> m] : m \in ErrorMessages}
    \cup {[class |-> "exception", message |-> <<"read", "timeout">>]}

Failure(err) == [success |-> FALSE, signature |-> NoSig, error |-> err]

\* wallets = [w for w, _ in recipients] of a batch of n recipients
BatchWallets(amount) == SubSeq(Wallets, 1, DigitsToInt(amount.digs))

\* (mutant) a failure result that leaves failed_wallets at its default
BatchFailureNoWallets(wallets, err) ==
    [success |-> FALSE, signature |-> NoSig, successful_wallets |-> <<>>,
     failed_wallets |-> <<>>, error |-> err]

\* BatchTransferResult(success=False, failed_wallets=wallets, error=...)
BatchFailure(wallets, err) ==
    [success |-> FALSE, signature |-> NoSig, successful_wallets |-> <<>>,
     failed_wallets |-> wallets, error |-> err]

\* BatchTransferResult(success=True, signature=..., successful_wallets=wallets,
\* failed_wallets=[])
BatchSuccess(wallets, signature) ==
    [success |-> TRUE, signature |-> signature, successful_wallets |-> wallets,
     failed_wallets |-> <<>>, error |-> <<>>]

\* the failure result of the call of w: by the function it runs
FailureOf(w, err) ==
    IF kind[w] = "send_batch_spl_token_transfers"
    THEN BatchFailure(BatchWallets(amountArg[w]), err)
    ELSE Failure(err)
Call(method, hash, class, message) ==
    [method |-> method, blockhash |-> hash,
     answer |-> [class |-> class, message |-> message]]

\* the amount checks, or the empty recipient list of a batch, end the call
\* before anything else; otherwise on to the account check (token transfers)
\* or to the submission loop
SendStart(w, f, amount) ==
    /\ pc[w] = "idle" /\ OthersIdle(w)
    /\ kind' = [kind EXCEPT ![w] = f]
    /\ amountArg' = [amountArg EXCEPT ![w] = amount]
    /\ LET err == IF f = "send_batch_spl_token_transfers" THEN <<>>
                  ELSE AmountError(MaxAmount(f), amount)
       IN  IF f = "send_batch_spl_token_transfers" /\ amount = Amount(0)
           THEN /\ txResult' = [txResult EXCEPT ![w] = BatchSuccess(<<>>, NoSig)]
                /\ Goto(w, "done")
           ELSE IF err # <<>>
                THEN /\ txResult' = [txResult EXCEPT ![w] = Failure(err)]
                     /\ Goto(w, "done")
                ELSE /\ Goto(w, IF f = "send_sol_transfer" THEN "send_fetch"
                                ELSE "send_ata")
                     /\ UNCHANGED txResult
    /\ UNCHANGED <<env, delivery, twabLocals, buyback, signaturesArg, attempt, blockhash, rpcCalls, retryLocals,
                   rewards, statuses, lockHolders, ledger, submitted, acquired,
                   poolArg, plan, idx, results, confirm, polls, ret>>

\* getAccountInfo / getMultipleAccounts for the recipient token accounts,
\* once, before the loop; an exception ends the call with a failure
SendAtaCheck(w) ==
    /\ pc[w] = "send_ata"
    /\ \E ok \in BOOLEAN :
          /\ rpcCalls' = [rpcCalls EXCEPT ![w] = Append(@,
                Call(IF kind[w] = "send_spl_token_transfer" THEN "getAccountInfo"
                     ELSE "getMultipleAccounts",
                     NoHash, IF ok THEN "result" ELSE "exception", <<>>))]
          /\ IF ok
             THEN Goto(w, "send_fetch") /\ UNCHANGED txResult
             ELSE /\ txResult' = [txResult EXCEPT ![w] =
                                     FailureOf(w, <<"ata", "check", "failed">>)]
                  /\ Goto(w, "done")
    /\ UNCHANGED <<env, delivery, twabLocals, buyback, signaturesArg, amountArg, attempt, blockhash, retryLocals,
                   rewards, statuses, lockHolders, ledger, submitted, kind,
                   acquired, poolArg, plan, idx, results, confirm, polls, ret>>

\* (mutant) the blockhash is fetched on the first attempt only
SendFetchOnce(w) ==
    /\ pc[w] = "send_fetch"
    /\ IF attempt[w] > 0
       THEN Goto(w, "send_submit") /\ UNCHANGED <<rpcCalls, blockhash, txResult>>
       ELSE /\ rpcCalls' = [rpcCalls EXCEPT ![w] = Append(@,
                  Call("getLatestBlockhash", Len(rpcCalls[w]) + 1, "result", <<>>))]
            /\ blockhash' = [blockhash EXCEPT ![w] = Len(rpcCalls[w]) + 1]
            /\ Goto(w, "send_submit") /\ UNCHANGED txResult
    /\ UNCHANGED <<env, delivery, twabLocals, buyback, signaturesArg, amountArg, attempt, retryLocals, rewards,
                   statuses, lockHolders, ledger, submitted, kind, acquired,
                   poolArg, plan, idx, results, confirm, polls, ret>>

\* top of "for attempt in range(MAX_BLOCKHASH_RETRIES + 1)":
\* get_recent_blockhash, which returns None on an error or an exception
SendFetch(w) ==
    /\ pc[w] = "send_fetch"
    /\ \E fetched \in BOOLEAN :
          LET hash == IF fetched THEN Len(rpcCalls[w]) + 1 ELSE NoHash IN
          /\ rpcCalls' = [rpcCalls EXCEPT ![w] = Append(@,
                Call("getLatestBlockhash", hash,
                     IF fetched THEN "result" ELSE "error", <<>>))]
          /\ blockhash' = [blockhash EXCEPT ![w] = hash]
          /\ IF fetched
             THEN Goto(w, "send_submit") /\ UNCHANGED txResult
             ELSE /\ txResult' = [txResult EXCEPT ![w] =
                                     FailureOf(w, <<"failed", "to", "get", "blockhash">>)]
                  /\ Goto(w, "done")
    /\ UNCHANGED <<env, delivery, twabLocals, buyback, signaturesArg, amountArg, attempt, retryLocals, rewards,
                   statuses, lockHolders, ledger, submitted, kind, acquired,
                   poolArg, plan, idx, results, confirm, polls, ret>>

\* (mutant) one retry too many
RetryAllowedOnLastAttempt(a) == a <= MAX_BLOCKHASH_RETRIES

\* "attempt < MAX_BLOCKHASH_RETRIES": another iteration is left
RetryAllowed(a) == a < MAX_BLOCKHASH_RETRIES

\* rest of the iteration: build, sign and post sendTransaction with the
\* blockhash of this attempt, then branch on the answer
SendSubmit(w) ==
    /\ pc[w] = "send_submit"
    /\ \E answer \in SubmitAnswers :
          /\ rpcCalls' = [rpcCalls EXCEPT ![w] = Append(@,
                Call("sendTransaction", blockhash[w], answer.class, answer.message))]
          /\ LET retry ==
                    \/ /\ answer.class = "error"
                       /\ IsBlockhashError(answer.message)
                       /\ RetryAllowed(attempt[w])
                    \/ \* except Exception: continue while an attempt is left
                       /\ answer.class = "exception"
                       /\ RetryAllowed(attempt[w])
             IN  IF retry
                 THEN /\ attempt' = [attempt EXCEPT ![w] = @ + 1]
                      /\ Goto(w, "send_fetch")
                      /\ UNCHANGED txResult
                 ELSE /\ txResult' = [txResult EXCEPT ![w] =
                            CASE answer.class = "result" ->
                                   IF kind[w] = "send_batch_spl_token_transfers"
                                   THEN BatchSuccess(BatchWallets(amountArg[w]),
                                                     Sig(w, attempt[w] + 1))
                                   ELSE [success |-> TRUE,
                                         signature |-> Sig(w, attempt[w] + 1),
                                         error |-> <<>>]
                              [] answer.class = "empty" ->
                                   FailureOf(w, <<"no", "signature", "returned">>)
                              [] OTHER -> FailureOf(w, answer.message)]
                      /\ Goto(w, "done")
                      /\ UNCHANGED attempt
    /\ UNCHANGED <<env, delivery, twabLocals, buyback, signaturesArg, amountArg, blockhash, retryLocals, rewards,
                   statuses, lockHolders, ledger, submitted, kind, acquired,
                   poolArg, plan, idx, results, confirm, polls, ret>>

NextSend ==
    \E w \in Workers :
        \/ \E f \in SendKinds : \E amount \in SendAmounts(f) : SendStart(w, f, amount)
        \/ SendAtaCheck(w)
        \/ SendFetch(w)
        \/ SendSubmit(w)

SpecSend == InitCalls /\ [][NextSend]_vars

\* the event loop keeps scheduling the coroutine and every request ends
\* (30 s client timeout)
FairSpecSend ==
    SpecSend /\ \A w \in Workers :
                   WF_vars(SendAtaCheck(w) \/ SendFetch(w) \/ SendSubmit(w))

\* ------------------------------------------------------------------------
\* Reconciliation: retry_failed_transfer on the rows of a committed
\* Distribution, one call at a time
\* ------------------------------------------------------------------------
\* the plan of the settled run: every run wallet with one raw unit
SettledRecipients ==
    <<[wallet |-> "a", hash_power |-> 1, amount |-> 1],
      [wallet |-> "b", hash_power |-> 1, amount |-> 1]>>

\* the ledger after a run of w1 that committed, each transfer sent or failed
InitRetry ==
    /\ twab = [w \in RunWallets |-> 1]
    /\ minBalance = 0
    /\ poolBalance = 0
    /\ credentials \in BOOLEAN
    /\ walletsConfig = AllConfigured
    /\ redisMode = "reachable"
    /\ lockHolders = {}
    /\ creatorRewards = <<>>
    /\ buybacks = <<>>
    /\ totalBuybacks = 0
    /\ \E sent \in SUBSET {1, 2} :
          LET transfer_results ==
                 [x \in {"a", "b"} |->
                     IF (IF x = "a" THEN 1 ELSE 2) \in sent
                     THEN Sig("w1", IF x = "a" THEN 1 ELSE 2) ELSE NoSig]
          IN  /\ distributions = {[id |-> DistId("w1"), pool_amount |-> 2,
                                   recipient_count |-> 2]}
              /\ recipientRows = RecipientData(DistId("w1"), SettledRecipients,
                                               transfer_results)
              /\ totalDistributed = 2
              /\ submitted = {[sig |-> Sig("w1", i), to |-> SettledRecipients[i].wallet,
                               amount |-> 1, by |-> "settled"] : i \in sent}
    /\ WorkersIdle

\* "from app.utils.solana_tx import send_spl_token_transfer,
\* batch_confirm_transactions": the module does not import confirm_transaction
ConfirmTransactionImported == FALSE

OthersQuiet(w) == \A v \in Workers \ {w} : pc[v] \in {"idle", "done"}
RetrySig(w) == Sig(w, 9)                 \* reference of the transfer a retry sends

\* (mutant) no early return for a row that has a reference
RetryStartAlways(w, i, planned_amount) ==
    /\ pc[w] = "idle" /\ OthersQuiet(w)
    /\ kind' = [kind EXCEPT ![w] = "retry"]
    /\ recipientArg' = [recipientArg EXCEPT ![w] = i]
    /\ plannedArg' = [plannedArg EXCEPT ![w] = planned_amount]
    /\ IF ~credentials
       THEN ret' = [ret EXCEPT ![w] = "False"] /\ Goto(w, "done")
       ELSE Goto(w, "retry_send") /\ UNCHANGED ret
    /\ UNCHANGED <<env, delivery, twabLocals, buyback, signaturesArg, sendLocals, rewards, statuses, lockHolders,
                   ledger, submitted, acquired, poolArg, plan, idx, results,
                   confirm, polls>>

\* retry_failed_transfer(recipient, planned_amount): the two early returns
RetryStart(w, i, planned_amount) ==
    /\ pc[w] = "idle" /\ OthersQuiet(w)
    /\ kind' = [kind EXCEPT ![w] = "retry"]
    /\ recipientArg' = [recipientArg EXCEPT ![w] = i]
    /\ plannedArg' = [plannedArg EXCEPT ![w] = planned_amount]
    /\ IF recipientRows[i].tx_signature # NoSig
       THEN ret' = [ret EXCEPT ![w] = "True"] /\ Goto(w, "done")
       ELSE IF ~credentials
            THEN ret' = [ret EXCEPT ![w] = "False"] /\ Goto(w, "done")
            ELSE Goto(w, "retry_send") /\ UNCHANGED ret
    /\ UNCHANGED <<env, delivery, twabLocals, buyback, signaturesArg, sendLocals, rewards, statuses, lockHolders,
                   ledger, submitted, acquired, poolArg, plan, idx, results,
                   confirm, polls>>

\* the try block: send_spl_token_transfer, confirm_transaction, the update of
\* the row and the commit; any exception returns False
RetrySend(w) ==
    /\ pc[w] = "retry_send"
    /\ LET i == recipientArg[w] IN
       \E outcome \in {"sent", "failed", "raises"} :
          IF outcome = "sent"
          THEN /\ submitted' = submitted \cup
                      {[sig |-> RetrySig(w), to |-> recipientRows[i].wallet,
                        amount |-> plannedArg[w], by |-> w]}
               /\ IF ConfirmTransactionImported
                  THEN \* "if confirmed or result.signature": update and commit,
                       \* unless confirm_transaction or the commit raises
                       \E raised \in BOOLEAN :
                          IF raised
                          THEN /\ ret' = [ret EXCEPT ![w] = "False"]
                               /\ UNCHANGED recipientRows
                          ELSE /\ recipientRows' = [recipientRows EXCEPT ![i] =
                                      [@ EXCEPT !.tx_signature = RetrySig(w),
                                                !.amount_received = plannedArg[w]]]
                               /\ ret' = [ret EXCEPT ![w] = "True"]
                  ELSE \* confirm_transaction is not a name of the module:
                       \* NameError, caught by "except Exception"
                       /\ ret' = [ret EXCEPT ![w] = "False"]
                       /\ UNCHANGED recipientRows
          ELSE /\ ret' = [ret EXCEPT ![w] = "False"]
               /\ UNCHANGED <<submitted, recipientRows>>
    /\ Goto(w, "done")
    /\ UNCHANGED <<env, delivery, helpers, statuses, lockHolders, distributions,
                   totalDistributed, kind, acquired, poolArg, plan, idx, results,
                   confirm, polls>>

NextRetry ==
    \E w \in Workers :
        \/ \E i \in 1..Len(recipientRows) : \E planned_amount \in 1..MaxRunPool :
              RetryStart(w, i, planned_amount)
        \/ RetrySend(w)

SpecRetry == InitRetry /\ [][NextRetry]_vars

\* ------------------------------------------------------------------------
\* Revenue ingestion: BuybackService.record_creator_reward, called by the
\* record_incoming_reward task of any worker, and mark_rewards_processed
\* ------------------------------------------------------------------------
\* a CreatorReward row is [id, amount_sol, source, tx_signature, processed];
\* ids are given in insertion order; tx_signature NoSig stands for None
RewardSources == {"pumpfun", "pumpswap"}
RewardArgs == [amount_sol : {1, 2}, source : RewardSources, tx_signature : {NoSig, 1, 2}]

\* select(CreatorReward).where(CreatorReward.tx_signature == tx_signature)
RewardsWithSignature(tx_signature) ==
    SelectSeq(creatorRewards, LAMBDA r : r.tx_signature = tx_signature)

\* the creator_rewards table declares tx_signature unique
UniqueTxSignature == TRUE

\* (mutant) no idempotency select before the insert
RecordSelectNoCheck(w, args) ==
    /\ pc[w] = "idle"
    /\ kind' = [kind EXCEPT ![w] = "record_reward"]
    /\ rewardArg' = [rewardArg EXCEPT ![w] = args]
    /\ Goto(w, "reward_insert")
    /\ UNCHANGED <<env, delivery, twabLocals, buyback, signaturesArg, sendLocals, retryLocals, creatorRewards,
                   existing, returned, statuses, lockHolders, ledger, submitted,
                   acquired, poolArg, plan, idx, results, confirm, polls, ret>>

\* record_creator_reward: the idempotency check
RecordSelect(w, args) ==
    /\ pc[w] = "idle"
    /\ kind' = [kind EXCEPT ![w] = "record_reward"]
    /\ rewardArg' = [rewardArg EXCEPT ![w] = args]
    /\ LET found == RewardsWithSignature(args.tx_signature) IN
       IF args.tx_signature # NoSig /\ Len(found) = 1
       THEN /\ existing' = [existing EXCEPT ![w] = found[1]]
            /\ returned' = [returned EXCEPT ![w] = found[1]]
            /\ ret' = [ret EXCEPT ![w] = "existing"]
            /\ Goto(w, "done")
       ELSE IF args.tx_signature # NoSig /\ Len(found) > 1
       THEN \* scalar_one_or_none raises MultipleResultsFound
            /\ ret' = [ret EXCEPT ![w] = "raises"]
            /\ Goto(w, "done")
            /\ UNCHANGED <<existing, returned>>
       ELSE /\ Goto(w, "reward_insert")
            /\ UNCHANGED <<existing, returned, ret>>
    /\ UNCHANGED <<env, delivery, twabLocals, buyback, signaturesArg, sendLocals, retryLocals, creatorRewards,
                   statuses, lockHolders, ledger, submitted, acquired, poolArg,
                   plan, idx, results, confirm, polls>>

\* (mutant) the commit stores the row whatever the table holds
RecordInsertUnchecked(w) ==
    /\ pc[w] = "reward_insert"
    /\ LET args == rewardArg[w]
           reward == [id |-> Len(creatorRewards) + 1, amount_sol |-> args.amount_sol,
                      source |-> args.source, tx_signature |-> args.tx_signature,
                      processed |-> FALSE]
       IN  /\ creatorRewards' = Append(creatorRewards, reward)
           /\ returned' = [returned EXCEPT ![w] = reward]
           /\ ret' = [ret EXCEPT ![w] = "created"]
    /\ Goto(w, "done")
    /\ UNCHANGED <<env, delivery, twabLocals, buyback, signaturesArg, sendLocals, retryLocals, rewardArg, existing,
                   statuses, lockHolders, ledger, submitted, kind, acquired,
                   poolArg, plan, idx, results, confirm, polls>>

\* record_creator_reward: CreatorReward(...), db.add, db.commit
RecordInsert(w) ==
    /\ pc[w] = "reward_insert"
    /\ LET args == rewardArg[w]
           reward == [id |-> Len(creatorRewards) + 1, amount_sol |-> args.amount_sol,
                      source |-> args.source, tx_signature |-> args.tx_signature,
                      processed |-> FALSE]
       IN  IF /\ UniqueTxSignature /\ args.tx_signature # NoSig
              /\ Len(RewardsWithSignature(args.tx_signature)) > 0
           THEN \* the commit raises IntegrityError out of the call
                /\ ret' = [ret EXCEPT ![w] = "raises"]
                /\ UNCHANGED <<creatorRewards, returned>>
           ELSE /\ creatorRewards' = Append(creatorRewards, reward)
                /\ returned' = [returned EXCEPT ![w] = reward]
                /\ ret' = [ret EXCEPT ![w] = "created"]
    /\ Goto(w, "done")
    /\ UNCHANGED <<env, delivery, twabLocals, buyback, signaturesArg, sendLocals, retryLocals, rewardArg, existing,
                   statuses, lockHolders, ledger, submitted, kind, acquired,
                   poolArg, plan, idx, results, confirm, polls>>

\* the CreatorReward rows after "reward.processed = True" for reward_ids, commit
WithProcessed(reward_ids) ==
    [i \in 1..Len(creatorRewards) |->
        IF i \in reward_ids
        THEN [creatorRewards[i] EXCEPT !.processed = TRUE]
        ELSE creatorRewards[i]]

\* mark_rewards_processed(reward_ids)
MarkRewardsProcessed(reward_ids) ==
    /\ \E i \in reward_ids : ~creatorRewards[i].processed
    /\ creatorRewards' = WithProcessed(reward_ids)
    /\ UNCHANGED <<env, delivery, twabLocals, buyback, signaturesArg, sendLocals, retryLocals, rewardArg, existing,
                   returned, statuses, lockHolders, ledger, submitted, pc, kind,
                   acquired, poolArg, plan, idx, results, confirm, polls, ret>>

NextReward ==
    \/ \E w \in Workers : \E args \in RewardArgs : RecordSelect(w, args)
    \/ \E w \in Workers : RecordInsert(w)
    \/ \E reward_ids \in SUBSET (1..Len(creatorRewards)) :
          MarkRewardsProcessed(reward_ids)

SpecReward == InitCalls /\ [][NextReward]_vars

\* ------------------------------------------------------------------------
\* The buyback pass: process_pending_rewards and BuybackService.execute_swap.
\* SOL amounts are counted in hundredths of the unit of CreatorReward.amount_sol.
\* ------------------------------------------------------------------------
JUPITER_QUOTE_MAX_AGE_SECONDS == 50

\* calculate_split: 80% buyback, 10% algo bot, 10% team
CalculateSplit(total_sol) ==
    [total_sol    |-> 100 * total_sol,
     buyback_sol  |-> 80 * total_sol,
     algo_bot_sol |-> 10 * total_sol,
     team_sol     |-> 10 * total_sol]

\* swap_amount = split.buyback_sol * Decimal("0.20")
SwapAmount(split) == (20 * split.buyback_sol) \div 100

\* get_unprocessed_rewards: ids of the rows with processed == False
UnprocessedRewards ==
    {i \in 1..Len(creatorRewards) : ~creatorRewards[i].processed}

RECURSIVE SumAmountSol(_)
SumAmountSol(ids) ==
    IF ids = {} THEN 0
    ELSE LET i == CHOOSE x \in ids : TRUE
         IN  creatorRewards[i].amount_sol + SumAmountSol(ids \ {i})

\* split of the pass of w, from the rewards it read
SplitOf(w) == CalculateSplit(SumAmountSol(passRewards[w]))

\* BuybackResult(success=False, ..., error=...)
BuybackFailure(err) ==
    [success |-> FALSE, tx_signature |-> NoSig, sol_spent |-> 0, error |-> err]

\* buyback_success = result.success and result.tx_signature
BuybackSuccess(w) == swapResult[w].success /\ swapResult[w].tx_signature # NoSig

\* rewards = await service.get_unprocessed_rewards(); None when there are none
ReadRewards(w) ==
    /\ passRewards' = [passRewards EXCEPT ![w] = UnprocessedRewards]
    /\ IF UnprocessedRewards = {}
       THEN ret' = [ret EXCEPT ![w] = "none"] /\ Goto(w, "done")
       ELSE Goto(w, "pass_pool") /\ UNCHANGED ret

\* process_pending_rewards(db), called on an idle worker
PassStart(w) ==
    /\ pc[w] = "idle"
    /\ kind' = [kind EXCEPT ![w] = "buyback_pass"]
    /\ ReadRewards(w)
    /\ UNCHANGED <<env, delivery, signaturesArg, sendLocals, retryLocals, rewards,
                   twabLocals, taskLocals, buybackLedger, poolTransfer, swapResult, sideTx,
                   swapLocals, statuses, lockHolders, ledger, submitted, acquired,
                   poolArg, plan, idx, results, confirm, polls>>

\* (mutant) the swap follows a pool transfer that was sent, confirmed or not
PassPoolTransferUnconfirmed(w) ==
    /\ pc[w] = "pass_pool"
    /\ \E sent, confirmed \in BOOLEAN :
          LET configured == credentials /\ walletsConfig.creator
              tx == IF configured /\ sent THEN Sig(w, 1) ELSE NoSig
              ok == tx # NoSig /\ confirmed
          IN  /\ (~configured => ~sent) /\ (~sent => ~confirmed)
              /\ poolTransfer' = [poolTransfer EXCEPT ![w] =
                                     [tx |-> tx, confirmed |-> ok]]
              /\ submitted' = IF tx # NoSig
                              THEN submitted \cup
                                   {[sig |-> tx, to |-> "pool",
                                     amount |-> SplitOf(w).buyback_sol, by |-> w]}
                              ELSE submitted
              /\ IF tx # NoSig
                 THEN Goto(w, "swap_quote") /\ UNCHANGED swapResult
                 ELSE /\ swapResult' = [swapResult EXCEPT ![w] =
                            BuybackFailure("Pool transfer failed or not confirmed")]
                      /\ Goto(w, "pass_record")
    /\ UNCHANGED <<env, delivery, signaturesArg, sendLocals, retryLocals, rewards,
                   twabLocals, taskLocals, buybackLedger, passRewards, sideTx, swapLocals,
                   statuses, lockHolders, ledger, kind, acquired, poolArg, plan,
                   idx, results, confirm, polls, ret>>

\* step 1: transfer of the buyback share from the creator wallet to the pool
\* (transfer_to_team_wallet), then confirm_transaction; without a confirmed
\* transfer the result is the failure "Pool transfer failed or not confirmed"
PassPoolTransfer(w) ==
    /\ pc[w] = "pass_pool"
    /\ \E sent, confirmed \in BOOLEAN :
          LET configured == credentials /\ walletsConfig.creator
              tx == IF configured /\ sent THEN Sig(w, 1) ELSE NoSig
              ok == tx # NoSig /\ confirmed
          IN  /\ (~configured => ~sent) /\ (~sent => ~confirmed)
              /\ poolTransfer' = [poolTransfer EXCEPT ![w] =
                                     [tx |-> tx, confirmed |-> ok]]
              /\ submitted' = IF tx # NoSig
                              THEN submitted \cup
                                   {[sig |-> tx, to |-> "pool",
                                     amount |-> SplitOf(w).buyback_sol, by |-> w]}
                              ELSE submitted
              /\ IF ok
                 THEN Goto(w, "swap_quote") /\ UNCHANGED swapResult
                 ELSE /\ swapResult' = [swapResult EXCEPT ![w] =
                            BuybackFailure("Pool transfer failed or not confirmed")]
                      /\ Goto(w, "pass_record")
    /\ UNCHANGED <<env, delivery, signaturesArg, sendLocals, retryLocals, rewards,
                   twabLocals, taskLocals, buybackLedger, passRewards, sideTx, swapLocals,
                   statuses, lockHolders, ledger, kind, acquired, poolArg, plan,
                   idx, results, confirm, polls, ret>>

\* seconds a Jupiter GET may take: none, just under and exactly the maximum age
Delays == {0, JUPITER_QUOTE_MAX_AGE_SECONDS - 1, JUPITER_QUOTE_MAX_AGE_SECONDS}

\* JupiterQuote.is_fresh with the age boundary included
IsFreshInclusive(q, utc_now) == utc_now - q.fetched_at <= JUPITER_QUOTE_MAX_AGE_SECONDS

\* JupiterQuote.is_fresh: age < JUPITER_QUOTE_MAX_AGE_SECONDS
IsFresh(q, utc_now) == utc_now - q.fetched_at < JUPITER_QUOTE_MAX_AGE_SECONDS

\* one request of execute_swap to the Jupiter API, as logged in jupiterCalls
JupiterCall(api, at, quote_at, ok) ==
    [api |-> api, at |-> at, quote_at |-> quote_at, ok |-> ok]

\* get_jupiter_quote: fetch_time is taken before the GET, which takes d seconds
\* and either answers or fails (None)
GetJupiterQuote(w, d, ok) ==
    /\ jupiterCalls' = [jupiterCalls EXCEPT ![w] =
                           Append(@, JupiterCall("quote", now[w], now[w], ok))]
    /\ now' = [now EXCEPT ![w] = @ + d]
    /\ quote' = [quote EXCEPT ![w] = IF ok THEN [fetched_at |-> now[w]] ELSE NoQuote]

\* execute_swap returns a failure result to the pass
SwapFails(w, err) ==
    /\ swapResult' = [swapResult EXCEPT ![w] = BuybackFailure(err)]
    /\ Goto(w, "pass_record")

\* execute_swap: the initial quote
SwapQuote(w) ==
    /\ pc[w] = "swap_quote"
    /\ \E d \in Delays, ok \in BOOLEAN :
          /\ GetJupiterQuote(w, d, ok)
          /\ IF ok
             THEN Goto(w, "swap_check") /\ UNCHANGED swapResult
             ELSE SwapFails(w, "Failed to get Jupiter quote")
    /\ UNCHANGED <<env, delivery, signaturesArg, sendLocals, retryLocals, rewards,
                   twabLocals, taskLocals, buybackLedger, passRewards, poolTransfer, sideTx,
                   statuses, lockHolders, ledger, submitted, kind, acquired,
                   poolArg, plan, idx, results, confirm, polls, ret>>

\* execute_swap: keypair_from_base58 (which may raise into the except branch),
\* then the freshness check of the initial quote
SwapCheck(w) ==
    /\ pc[w] = "swap_check"
    /\ \E keypair_ok \in BOOLEAN :
          IF ~keypair_ok
          THEN SwapFails(w, "str(e)")
          ELSE /\ IF IsFresh(quote[w], now[w])
                  THEN Goto(w, "swap_submit")
                  ELSE Goto(w, "swap_refetch")
               /\ UNCHANGED swapResult
    /\ UNCHANGED <<env, delivery, signaturesArg, sendLocals, retryLocals, rewards,
                   twabLocals, taskLocals, buybackLedger, passRewards, poolTransfer, sideTx,
                   swapLocals, statuses, lockHolders, ledger, submitted, kind,
                   acquired, poolArg, plan, idx, results, confirm, polls, ret>>

\* execute_swap: the quote was stale, get_jupiter_quote once more
SwapRefetch(w) ==
    /\ pc[w] = "swap_refetch"
    /\ \E d \in Delays, ok \in BOOLEAN :
          /\ GetJupiterQuote(w, d, ok)
          /\ IF ok
             THEN Goto(w, "swap_submit") /\ UNCHANGED swapResult
             ELSE SwapFails(w, "Failed to re-fetch Jupiter quote after expiration")
    /\ UNCHANGED <<env, delivery, signaturesArg, sendLocals, retryLocals, rewards,
                   twabLocals, taskLocals, buybackLedger, passRewards, poolTransfer, sideTx,
                   statuses, lockHolders, ledger, submitted, kind, acquired,
                   poolArg, plan, idx, results, confirm, polls, ret>>

SwapOutcomes == {"http_error", "no_swap_transaction", "send_failed", "sent"}

\* execute_swap: POST of quote.data to the swap API, sign_and_send_transaction,
\* confirm_transaction (an unconfirmed swap is only logged)
SwapSubmit(w) ==
    /\ pc[w] = "swap_submit"
    /\ jupiterCalls' = [jupiterCalls EXCEPT ![w] =
                           Append(@, JupiterCall("swap", now[w], quote[w].fetched_at, TRUE))]
    /\ \E outcome \in SwapOutcomes :
          IF outcome = "sent"
          THEN /\ swapResult' = [swapResult EXCEPT ![w] =
                      [success |-> TRUE, tx_signature |-> Sig(w, 2),
                       sol_spent |-> SwapAmount(SplitOf(w)), error |-> "none"]]
               /\ submitted' = submitted \cup
                      {[sig |-> Sig(w, 2), to |-> "jupiter",
                        amount |-> SwapAmount(SplitOf(w)), by |-> w]}
               /\ Goto(w, "pass_record")
          ELSE SwapFails(w, outcome) /\ UNCHANGED submitted
    /\ UNCHANGED <<env, delivery, signaturesArg, sendLocals, retryLocals, rewards,
                   twabLocals, taskLocals, buybackLedger, passRewards, poolTransfer, sideTx,
                   quote, now, statuses, lockHolders, ledger, kind, acquired,
                   poolArg, plan, idx, results, confirm, polls, ret>>

\* record_buyback: Buyback(...), db.add, _update_system_stats, db.commit
RecordBuyback(tx_signature, sol_amount) ==
    /\ buybacks' = Append(buybacks, [id |-> Len(buybacks) + 1,
                                     tx_signature |-> tx_signature,
                                     sol_amount |-> sol_amount])
    /\ totalBuybacks' = totalBuybacks + sol_amount

\* PoolUpdatedPayload has the fields balance, value_usd and ready_to_distribute;
\* emit_pool_updated builds it with the keywords progress_to_threshold,
\* threshold_met and hours_until_time_trigger, so the constructor raises
\* TypeError and nothing is broadcast
EmitPoolUpdated == [raised |-> TRUE]

\* "if buyback_success:" record_buyback, which may raise out of the pass, then
\* the pool:updated emit inside try/except Exception ("Never block buyback on
\* WebSocket failures")
PassRecord(w) ==
    /\ pc[w] = "pass_record"
    /\ IF BuybackSuccess(w)
       THEN \E db_ok \in BOOLEAN :
               IF db_ok
               THEN /\ RecordBuyback(swapResult[w].tx_signature, swapResult[w].sol_spent)
                    /\ delivery' = [delivery EXCEPT ![w] =
                                       IF EmitPoolUpdated.raised THEN "failed" ELSE "sent"]
                    /\ Goto(w, "pass_side") /\ UNCHANGED ret
               ELSE /\ ret' = [ret EXCEPT ![w] = "raises"]
                    /\ Goto(w, "done")
                    /\ UNCHANGED <<buybackLedger, delivery>>
       ELSE Goto(w, "pass_side") /\ UNCHANGED <<buybackLedger, delivery, ret>>
    /\ UNCHANGED <<env, signaturesArg, sendLocals, retryLocals, rewards, twabLocals, taskLocals,
                   passLocals, swapLocals, statuses, lockHolders, ledger, submitted,
                   kind, acquired, poolArg, plan, idx, results, confirm, polls>>

\* the 10% transfers to the algo bot wallet and to the team wallet
\* (transfer_to_team_wallet returns the signature or None)
PassSide(w) ==
    /\ pc[w] = "pass_side"
    /\ \E algo_sent, team_sent \in BOOLEAN :
          LET algo_bot_tx == IF walletsConfig.algo_bot /\ walletsConfig.creator /\ algo_sent
                             THEN Sig(w, 3) ELSE NoSig
              team_tx == IF walletsConfig.team /\ walletsConfig.creator /\ team_sent
                         THEN Sig(w, 4) ELSE NoSig
          IN  /\ (algo_sent => walletsConfig.algo_bot /\ walletsConfig.creator)
              /\ (team_sent => walletsConfig.team /\ walletsConfig.creator)
              /\ sideTx' = [sideTx EXCEPT ![w] =
                               [algo_bot_tx |-> algo_bot_tx, team_tx |-> team_tx]]
              /\ submitted' = submitted
                    \cup (IF algo_bot_tx = NoSig THEN {}
                          ELSE {[sig |-> algo_bot_tx, to |-> "algo_bot",
                                 amount |-> SplitOf(w).algo_bot_sol, by |-> w]})
                    \cup (IF team_tx = NoSig THEN {}
                          ELSE {[sig |-> team_tx, to |-> "team",
                                 amount |-> SplitOf(w).team_sol, by |-> w]})
    /\ Goto(w, "pass_mark")
    /\ UNCHANGED <<env, delivery, signaturesArg, sendLocals, retryLocals, rewards,
                   twabLocals, taskLocals, buybackLedger, passRewards, poolTransfer, swapResult,
                   swapLocals, statuses, lockHolders, ledger, kind, acquired,
                   poolArg, plan, idx, results, confirm, polls, ret>>

\* "return result" of process_pending_rewards, or an exception out of it
PassReturn(w, outcome) ==
    /\ ret' = [ret EXCEPT ![w] = outcome]
    /\ Goto(w, "done")

\* (mutant) the pass marks whatever is unprocessed when it finishes
PassMarkAllUnprocessed(w) ==
    /\ pc[w] = "pass_mark"
    /\ IF BuybackSuccess(w) \/ sideTx[w].algo_bot_tx # NoSig \/ sideTx[w].team_tx # NoSig
       THEN \E db_ok \in BOOLEAN :
               IF db_ok
               THEN /\ creatorRewards' = WithProcessed(UnprocessedRewards)
                    /\ PassReturn(w, IF swapResult[w].success THEN "success" ELSE "failed")
               ELSE /\ UNCHANGED creatorRewards
                    /\ PassReturn(w, "raises")
       ELSE /\ UNCHANGED creatorRewards
            /\ PassReturn(w, IF swapResult[w].success THEN "success" ELSE "failed")
    /\ UNCHANGED <<env, delivery, signaturesArg, sendLocals, retryLocals, rewardArg,
                   existing, returned, twabLocals, buyback, statuses, lockHolders,
                   ledger, submitted, kind, acquired, poolArg, plan, idx, results,
                   confirm, polls>>

\* (mutant) rewards are marked only when a side transfer went out
PassMarkOnSideTransfer(w) ==
    /\ pc[w] = "pass_mark"
    /\ IF sideTx[w].algo_bot_tx # NoSig \/ sideTx[w].team_tx # NoSig
       THEN creatorRewards' = WithProcessed(passRewards[w])
       ELSE UNCHANGED creatorRewards
    /\ PassReturn(w, IF swapResult[w].success THEN "success" ELSE "failed")
    /\ UNCHANGED <<env, delivery, signaturesArg, sendLocals, retryLocals, rewardArg,
                   existing, returned, twabLocals, buyback, statuses, lockHolders,
                   ledger, submitted, kind, acquired, poolArg, plan, idx, results,
                   confirm, polls>>

\* "if buyback_success or algo_bot_tx or team_tx: mark_rewards_processed(...)",
\* whose commit may raise out of the pass, then "return result"
PassMark(w) ==
    /\ pc[w] = "pass_mark"
    /\ IF BuybackSuccess(w) \/ sideTx[w].algo_bot_tx # NoSig \/ sideTx[w].team_tx # NoSig
       THEN \E db_ok \in BOOLEAN :
               IF db_ok
               THEN /\ creatorRewards' = WithProcessed(passRewards[w])
                    /\ PassReturn(w, IF swapResult[w].success THEN "success" ELSE "failed")
               ELSE /\ UNCHANGED creatorRewards
                    /\ PassReturn(w, "raises")
       ELSE /\ UNCHANGED creatorRewards
            /\ PassReturn(w, IF swapResult[w].success THEN "success" ELSE "failed")
    /\ UNCHANGED <<env, delivery, signaturesArg, sendLocals, retryLocals, rewardArg,
                   existing, returned, twabLocals, buyback, statuses, lockHolders,
                   ledger, submitted, kind, acquired, poolArg, plan, idx, results,
                   confirm, polls>>

\* CreatorReward rows recorded before the passes, some of them processed already
PendingRewards ==
    {<<[id |-> 1, amount_sol |-> 1, source |-> "pumpfun", tx_signature |-> 1,
        processed |-> p1],
       [id |-> 2, amount_sol |-> 2, source |-> "pumpswap", tx_signature |-> 2,
        processed |-> p2]>> : p1, p2 \in BOOLEAN}

InitBuyback ==
    /\ twab = [w \in RunWallets |-> 0]
    /\ minBalance = 0
    /\ poolBalance = 0
    /\ credentials \in BOOLEAN
    /\ walletsConfig \in [creator : BOOLEAN, algo_bot : BOOLEAN, team : BOOLEAN]
    /\ redisMode = "reachable"
    /\ lockHolders = {}
    /\ distributions = {}
    /\ recipientRows = <<>>
    /\ totalDistributed = 0
    /\ submitted = {}
    /\ creatorRewards \in PendingRewards
    /\ buybacks = <<>>
    /\ totalBuybacks = 0
    /\ WorkersIdle

PassStep(w) ==
    \/ OthersQuiet(w) /\ PassStart(w)
    \/ PassPoolTransfer(w)
    \/ SwapQuote(w)
    \/ SwapCheck(w)
    \/ SwapRefetch(w)
    \/ SwapSubmit(w)
    \/ PassRecord(w)
    \/ PassSide(w)
    \/ PassMark(w)

NextBuyback == \E w \in Workers : PassStep(w)

SpecBuyback == InitBuyback /\ [][NextBuyback]_vars

\* one settlement task on w1 next to one buyback pass on w2, both of which
\* end with a notification
InitNotify ==
    /\ twab = [w \in RunWallets |-> 1]
    /\ minBalance = 0
    /\ poolBalance = MaxRunPool
    /\ credentials = TRUE
    /\ walletsConfig = AllConfigured
    /\ redisMode = "reachable"
    /\ lockHolders = {}
    /\ distributions = {}
    /\ recipientRows = <<>>
    /\ totalDistributed = 0
    /\ submitted = {}
    /\ creatorRewards \in {rs \in PendingRewards : \A i \in 1..Len(rs) : ~rs[i].processed}
    /\ buybacks = <<>>
    /\ totalBuybacks = 0
    /\ WorkersIdle

RunStep(w) ==
    \/ \E k \in Kinds : Start(w, k)
    \/ HourlyStatus(w)
    \/ Acquire(w)
    \/ Trigger(w)
    \/ PlanStep(w)
    \/ ExecBegin(w)
    \/ Transfer(w)
    \/ ConfirmPoll(w)
    \/ ConfirmReturn(w)
    \/ Record(w)
    \/ Emit(w)
    \/ Close(w)

NextNotify == RunStep("w1") \/ PassStep("w2")

SpecNotify == InitNotify /\ [][NextNotify]_vars

\* ------------------------------------------------------------------------
\* The Celery task process_creator_rewards (tasks/buyback_task.py). Redis is
\* a set of keys; the model covers invocations within the TTL of a key, so
\* no key expires.

IDEMPOTENCY_TTL_SECONDS == 3600

TaskIds == {1, 2}                        \* self.request.id of the invocations
RedisModes == {"unconfigured", "unreachable", "reachable"}

\* (mutant) SET without NX: the key is written, the reply is always truthy
CheckIdempotencyWithoutNx(task_id) ==
    IF redisMode = "reachable"
    THEN [proceed |-> TRUE, keys |-> redisKeys \cup {task_id}]
    ELSE [proceed |-> TRUE, keys |-> redisKeys]

\* _check_idempotency(task_id): SET key "1" NX EX 3600 is one atomic command;
\* no redis_url, or any exception, lets the task proceed
CheckIdempotency(task_id) ==
    IF redisMode = "unconfigured"
    THEN [proceed |-> TRUE, keys |-> redisKeys]
    ELSE IF redisMode = "unreachable"
    THEN [proceed |-> TRUE, keys |-> redisKeys]
    ELSE [proceed |-> task_id \notin redisKeys, keys |-> redisKeys \cup {task_id}]

\* _process_creator_rewards(task_id): the idempotency check
TaskStart(w, task_id) ==
    /\ pc[w] = "idle"
    /\ kind' = [kind EXCEPT ![w] = "buyback_task"]
    /\ taskId' = [taskId EXCEPT ![w] = task_id]
    /\ LET check == CheckIdempotency(task_id) IN
       /\ redisKeys' = check.keys
       /\ IF check.proceed
          THEN Goto(w, "task_total") /\ UNCHANGED ret
          ELSE ret' = [ret EXCEPT ![w] = "already_processed"] /\ Goto(w, "done")
    /\ UNCHANGED <<env, delivery, signaturesArg, sendLocals, retryLocals, rewards,
                   twabLocals, redisMode, buybackLedger, passLocals, swapLocals,
                   statuses, lockHolders, ledger, submitted, acquired, poolArg,
                   plan, idx, results, confirm, polls>>

\* total_pending = await service.get_total_unprocessed_sol()
TaskTotal(w) ==
    /\ pc[w] = "task_total"
    /\ IF SumAmountSol(UnprocessedRewards) = 0
       THEN ret' = [ret EXCEPT ![w] = "no_pending_rewards"] /\ Goto(w, "done")
       ELSE Goto(w, "task_pass") /\ UNCHANGED ret
    /\ UNCHANGED <<env, delivery, signaturesArg, sendLocals, retryLocals, rewards,
                   twabLocals, buyback, statuses, lockHolders, ledger, submitted,
                   kind, acquired, poolArg, plan, idx, results, confirm, polls>>

\* result = await process_pending_rewards(db)
TaskPass(w) ==
    /\ pc[w] = "task_pass"
    /\ ReadRewards(w)
    /\ UNCHANGED <<env, delivery, signaturesArg, sendLocals, retryLocals, rewards,
                   twabLocals, taskLocals, buybackLedger, poolTransfer, swapResult,
                   sideTx, swapLocals, statuses, lockHolders, ledger, submitted,
                   kind, acquired, poolArg, plan, idx, results, confirm, polls>>

\* a reward detected while the tasks run
IncomingRewards ==
    {[amount_sol |-> 1, source |-> "pumpfun", tx_signature |-> 3]}

\* both rewards still to process, or both processed already
TaskRewards ==
    {rs \in PendingRewards : rs[1].processed = rs[2].processed}

InitTask ==
    /\ twab = [w \in RunWallets |-> 0]
    /\ minBalance = 0
    /\ poolBalance = 0
    /\ credentials = TRUE
    /\ walletsConfig = AllConfigured
    /\ redisMode \in RedisModes
    /\ lockHolders = {}
    /\ distributions = {}
    /\ recipientRows = <<>>
    /\ totalDistributed = 0
    /\ submitted = {}
    /\ creatorRewards \in TaskRewards
    /\ buybacks = <<>>
    /\ totalBuybacks = 0
    /\ WorkersIdle

\* tasks, direct passes and reward ingestion on every worker, unsynchronised
NextTask ==
    \/ \E w \in Workers : \E task_id \in TaskIds : TaskStart(w, task_id)
    \/ \E w \in Workers : TaskTotal(w)
    \/ \E w \in Workers : TaskPass(w)
    \/ \E w \in Workers : PassPoolTransfer(w)
    \/ \E w \in Workers : SwapQuote(w)
    \/ \E w \in Workers : SwapCheck(w)
    \/ \E w \in Workers : SwapRefetch(w)
    \/ \E w \in Workers : SwapSubmit(w)
    \/ \E w \in Workers : PassRecord(w)
    \/ \E w \in Workers : PassSide(w)
    \/ \E w \in Workers : PassMark(w)
    \/ \E w \in Workers : \E args \in IncomingRewards : RecordSelect(w, args)
    \/ \E w \in Workers : RecordInsert(w)

SpecTask == InitTask /\ [][NextTask]_vars

\* ------------------------------------------------------------------------
\* TWABService._compute_twab(balances, start, end); times are seconds (UTC)
\* ------------------------------------------------------------------------
Max2(a, b) == IF a >= b THEN a ELSE b
Min2(a, b) == IF a <= b THEN a ELSE b

\* (mutant) the segment is not clamped to the period
SegmentDurationUnclamped(seg_start, seg_end, start, end) == seg_end - seg_start

\* seg_start = max(seg_start, start); seg_end = min(seg_end, end);
\* duration = (seg_end - seg_start).total_seconds()
SegmentDuration(seg_start, seg_end, start, end) ==
    Min2(seg_end, end) - Max2(seg_start, start)

\* the forward-fill loop from sample i on: weighted_sum
RECURSIVE WeightedSum(_, _, _, _)
WeightedSum(balances, i, start, end) ==
    IF i > Len(balances) THEN 0
    ELSE LET seg_end == IF i < Len(balances) THEN balances[i + 1].timestamp ELSE end
             duration == SegmentDuration(balances[i].timestamp, seg_end, start, end)
         IN  (IF duration > 0 THEN balances[i].balance * duration ELSE 0)
             + WeightedSum(balances, i + 1, start, end)

ComputeTwab(balances, start, end) ==
    IF balances = <<>> THEN 0
    ELSE LET total_duration == end - start IN
         IF total_duration <= 0 THEN 0
         ELSE IF Len(balances) = 1
         THEN \* single balance point: from the snapshot to the end
              LET duration == end - Max2(balances[1].timestamp, start) IN
              IF duration <= 0 THEN 0
              ELSE DecToInt(DecDivide(balances[1].balance * duration, total_duration))
         ELSE DecToInt(DecDivide(WeightedSum(balances, 1, start, end), total_duration))

Times == 0..MaxTime
Balances == {0, MaxBalance}
Samples == [timestamp : Times, balance : Balances]

\* the rows of calculate_twab: ordered by Snapshot.timestamp ascending
OrderedBalances ==
    {bs \in UNION {[1..n -> Samples] : n \in 0..MaxSamples} :
        \A i \in 1..(Len(bs) - 1) : bs[i].timestamp <= bs[i + 1].timestamp}

ComputeTwabCall(w, balances, start, end) ==
    /\ pc[w] = "idle" /\ OthersIdle(w)
    /\ kind' = [kind EXCEPT ![w] = "twab"]
    /\ balancesArg' = [balancesArg EXCEPT ![w] = balances]
    /\ windowArg' = [windowArg EXCEPT ![w] = [start |-> start, end |-> end]]
    /\ twabRet' = [twabRet EXCEPT ![w] = ComputeTwab(balances, start, end)]
    /\ Goto(w, "done")
    /\ UNCHANGED <<env, delivery, signaturesArg, sendLocals, retryLocals, rewards,
                   weightsArg, hashPowers, buyback, statuses, lockHolders, ledger,
                   submitted, acquired, poolArg, plan, idx, results, confirm, polls, ret>>

NextTwab ==
    \E w \in Workers :
        /\ pc[w] = "idle" /\ OthersIdle(w)
        /\ \E balances \in OrderedBalances : \E start, end \in Times :
              ComputeTwabCall(w, balances, start, end)

SpecTwab == InitCalls /\ [][NextTwab]_vars

\* ------------------------------------------------------------------------
\* TWABService.calculate_all_hash_powers over the rows of its JOIN query;
\* hash powers are counted in hundredths (TWAB x multiplier x 100)
\* ------------------------------------------------------------------------
\* TIER_CONFIG[tier]["multiplier"] x 100
TierMultiplier == <<100, 125, 150, 250, 350, 500>>
NoTier == 0                              \* HoldStreak.current_tier of a wallet without streak row

\* the period of the call
PeriodStart == 0
PeriodEnd == MaxTime

\* wallets in the order of their first row (dict insertion order)
RECURSIVE WalletsOfRows(_, _)
WalletsOfRows(rows, seen) ==
    IF rows = <<>> THEN <<>>
    ELSE IF Head(rows).wallet \in seen THEN WalletsOfRows(Tail(rows), seen)
    ELSE <<Head(rows).wallet>> \o WalletsOfRows(Tail(rows), seen \cup {Head(rows).wallet})

\* (mutant) the rows of excluded wallets are grouped like the others
GroupedRowsUnfiltered(rows, excluded) == rows

\* "if wallet in excluded_wallets: continue"
GroupedRows(rows, excluded) ==
    SelectSeq(rows, LAMBDA r : r.wallet \notin excluded)

\* wallet_balances[wallet]: the (timestamp, balance) pairs of the wallet's rows
BalancesOf(rows, wallet) ==
    LET mine == SelectSeq(rows, LAMBDA r : r.wallet = wallet)
    IN  [i \in 1..Len(mine) |-> [timestamp |-> mine[i].timestamp,
                                 balance |-> mine[i].balance]]

\* wallet_tiers[wallet]: the tier of the wallet's first row, 1 when it is None
TierOf(rows, wallet) ==
    LET mine == SelectSeq(rows, LAMBDA r : r.wallet = wallet)
    IN  IF mine[1].tier = NoTier THEN 1 ELSE mine[1].tier

\* the loop of _compute_hash_powers_sync over wallet_balances.items()
RECURSIVE HashPowerInfos(_, _, _, _, _)
HashPowerInfos(grouped, wallets, start, end, min_balance) ==
    IF wallets = <<>> THEN <<>>
    ELSE LET wallet == Head(wallets)
             tw == ComputeTwab(BalancesOf(grouped, wallet), start, end)
             tier == TierOf(grouped, wallet)
         IN  (IF tw < min_balance THEN <<>>
              ELSE <<[wallet |-> wallet, twab |-> tw, tier |-> tier,
                      hash_power |-> tw * TierMultiplier[tier]]>>)
             \o HashPowerInfos(grouped, Tail(wallets), start, end, min_balance)

\* _compute_hash_powers_sync: the loop, then the sort by hash power descending
ComputeHashPowersSync(grouped, start, end, min_balance) ==
    SortDesc(HashPowerInfos(grouped, WalletsOfRows(grouped, {}), start, end, min_balance))

\* calculate_all_hash_powers(start, end, min_balance, limit); "if limit:" takes
\* limit 0 as no limit
CalculateAllHashPowers(rows, excluded, start, end, min_balance, limit) ==
    LET grouped == GroupedRows(rows, excluded) IN
    IF grouped = <<>> THEN <<>>
    ELSE LET hash_powers == ComputeHashPowersSync(grouped, start, end, min_balance)
         IN  IF limit # 0
             THEN SubSeq(hash_powers, 1, Min2(limit, Len(hash_powers)))
             ELSE hash_powers

\* balance histories of one wallet inside the period, oldest first
Histories ==
    {bs \in OrderedBalances :
        \A i \in 1..Len(bs) : bs[i].timestamp \in {PeriodStart, MaxTime \div 2}}

\* the rows of one wallet: its samples joined with its streak row (or none)
RowsOfWallet(wallet, history, tier) ==
    [i \in 1..Len(history) |->
        [wallet |-> wallet, timestamp |-> history[i].timestamp,
         balance |-> history[i].balance, tier |-> tier]]

\* the query result: ordered by wallet, then by timestamp
QueryRows ==
    {RowsOfWallet("a", ha, ta) \o RowsOfWallet("b", hb, tb) :
        ha \in Histories, hb \in Histories, ta \in {NoTier, 2}, tb \in {NoTier, 2}}

CalculateAllHashPowersCall(w, rows, excluded, min_balance, limit) ==
    /\ pc[w] = "idle" /\ OthersIdle(w)
    /\ kind' = [kind EXCEPT ![w] = "weights"]
    /\ weightsArg' = [weightsArg EXCEPT ![w] =
                         [rows |-> rows, excluded |-> excluded,
                          min_balance |-> min_balance, limit |-> limit]]
    /\ hashPowers' = [hashPowers EXCEPT ![w] =
                         CalculateAllHashPowers(rows, excluded, PeriodStart, PeriodEnd,
                                                min_balance, limit)]
    /\ Goto(w, "done")
    /\ UNCHANGED <<env, delivery, signaturesArg, sendLocals, retryLocals, rewards,
                   balancesArg, windowArg, twabRet, buyback, statuses, lockHolders,
                   ledger, submitted, acquired, poolArg, plan, idx, results, confirm,
                   polls, ret>>

NextWeights ==
    \E w \in Workers :
        /\ pc[w] = "idle" /\ OthersIdle(w)
        /\ \E rows \in QueryRows : \E excluded \in SUBSET {"a", "b"} :
              \E min_balance \in {0, MaxBalance} : \E limit \in {0, 1} :
                 CalculateAllHashPowersCall(w, rows, excluded, min_balance, limit)

SpecWeights == InitCalls /\ [][NextWeights]_vars

\* ------------------------------------------------------------------------
\* Properties of the planner (SpecPlan)
\* ------------------------------------------------------------------------
EligibleHashPowers == ComputeHashPowers(twab, minBalance)
Planned(w) == pc[w] = "done" /\ kind[w] = "preview"

\* C1: for every pool_amount > 0 and every weight list with total > 0,
\* calculate_distribution returns a plan whose amounts, summed over the
\* recipients left after the zero amounts are dropped, equal pool_amount.
C1_Conservation ==
    \A w \in Workers :
        (Planned(w) /\ poolArg[w] > 0 /\ SumHashPower(EligibleHashPowers) > 0)
        => /\ plan[w].valid
           /\ plan[w].pool_amount = poolArg[w]
           /\ SumAmount(plan[w].recipients) = poolArg[w]

\* a plan whose truncation left a remainder and lost a zero-amount recipient
C1_Witness ==
    \E w \in Workers :
        /\ Planned(w) /\ plan[w].valid
        /\ Len(plan[w].recipients) < Len(EligibleHashPowers)
        /\ SumAmount(FirstPass(poolArg[w], EligibleHashPowers,
                               SumHashPower(EligibleHashPowers))) < poolArg[w]
        /\ SumAmount(plan[w].recipients) = poolArg[w]

\* C6: calculate_distribution returns None when pool_amount <= 0, when no
\* account is eligible, or when the total weight of the eligible accounts
\* is <= 0.
C6_NoPlan ==
    \A w \in Workers :
        (Planned(w) /\ (\/ poolArg[w] <= 0
                        \/ EligibleHashPowers = <<>>
                        \/ SumHashPower(EligibleHashPowers) <= 0))
        => plan[w] = NoPlan

\* eligible accounts, all of weight zero, and a positive pool: the division
\* by the total weight is guarded
C6_Witness ==
    \E w \in Workers :
        /\ Planned(w) /\ poolArg[w] > 0
        /\ EligibleHashPowers # <<>>
        /\ SumHashPower(EligibleHashPowers) = 0
        /\ plan[w] = NoPlan

\* the amount the plan of w gives a wallet: 0 when the wallet was dropped
PlannedAmount(w, wallet) ==
    LET Mine(r) == r.wallet = wallet
        mine == SelectSeq(plan[w].recipients, Mine)
    IN  IF mine = <<>> THEN 0 ELSE mine[1].amount

\* floor(pool_amount * w_i / total_weight)
FloorShare(pool_amount, hash_power, total_hp) == (pool_amount * hash_power) \div total_hp

RECURSIVE SumFloorShares(_, _, _)
SumFloorShares(pool_amount, hash_powers, total_hp) ==
    IF hash_powers = <<>> THEN 0
    ELSE FloorShare(pool_amount, Head(hash_powers).hash_power, total_hp)
         + SumFloorShares(pool_amount, Tail(hash_powers), total_hp)

\* C28: with the recipients in weight-descending order (ties in insertion
\* order) and floor shares f_i = floor(pool_amount * w_i / total_weight),
\* the remainder r = pool_amount - sum(f_i) satisfies 0 <= r < n and the
\* planned amount is f_i + 1 for the first r recipients and f_i for the
\* others; when every share is exact, r = 0 and each amount is its share.
C28_FloorSharesPlusRemainder ==
    \A w \in Workers :
        (Planned(w) /\ poolArg[w] > 0 /\ SumHashPower(EligibleHashPowers) > 0)
        => LET order == SortDesc(EligibleHashPowers)
               total == SumHashPower(EligibleHashPowers)
               r == poolArg[w] - SumFloorShares(poolArg[w], order, total)
           IN  /\ 0 <= r /\ r < Len(order)
               /\ \A i \in 1..Len(order) :
                     PlannedAmount(w, order[i].wallet)
                        = FloorShare(poolArg[w], order[i].hash_power, total)
                          + (IF i <= r THEN 1 ELSE 0)

\* ------------------------------------------------------------------------
\* Properties of the settlement runs (Spec, FairSpec)
\* ------------------------------------------------------------------------
\* the Distribution of the run of w is committed
Committed(w) == \E d \in distributions : d.id = DistId(w)

\* the committed DistributionRecipient rows of the run of w
RowsOf(w) ==
    LET Mine(r) == r.distribution_id = DistId(w) IN SelectSeq(recipientRows, Mine)

\* w is inside execute_distribution, before its commit or rollback
Executing(w) == pc[w] \in {"exec_begin", "transfer", "confirm", "record"}

\* planned recipients of w whose transfer returned no reference
FailedWallets(w) ==
    {plan[w].recipients[i].wallet : i \in
        {j \in 1..Len(plan[w].recipients) :
            Get(results[w], plan[w].recipients[j].wallet) = NoSig}}

\* C2: at most one worker holds the distribution lock at any time: the
\* holders are workers whose acquire_distribution_lock returned True, a
\* worker that got True holds the lock until its transaction ends, and two
\* workers never hold it together (of two overlapping attempts one got False).
C2_OneHolder ==
    /\ Cardinality(lockHolders) <= 1
    /\ \A w \in lockHolders : acquired[w] = "true"
    /\ \A w \in Workers :
          (acquired[w] = "true" /\ (pc[w] \in {"trigger", "plan"} \/ Executing(w)))
          => w \in lockHolders

\* one worker holds the lock, the other attempted and was refused
C2_Witness ==
    \E w1, w2 \in Workers :
        /\ w1 # w2
        /\ lockHolders = {w1} /\ acquired[w1] = "true"
        /\ acquired[w2] = "false"

\* C3: a forced settlement holds the distribution lock while it executes,
\* so no two settlement runs are inside execute_distribution together.
C3_ForcedUnderLock ==
    /\ \A w \in Workers : Executing(w) => w \in lockHolders
    /\ \A w1, w2 \in Workers : (Executing(w1) /\ Executing(w2)) => w1 = w2

\* C4: a worker that holds the distribution lock eventually no longer
\* holds it, on every path of its run.
C4_LockReleased ==
    \A w \in Workers : (w \in lockHolders) ~> (w \notin lockHolders)

\* a worker acquired the lock, its run ended without a Distribution, and
\* the other worker now holds the lock
C4_Witness ==
    \E w1, w2 \in Workers :
        /\ acquired[w1] = "true" /\ pc[w1] = "done"
        /\ ret[w1] \in {"failed", "error", "no_plan"}
        /\ w2 \in lockHolders

\* C5: a worker whose acquire_distribution_lock returned False goes straight
\* to its return: no plan, no transfer, no Distribution or recipient row.
C5_ContentionNoOp ==
    \A w \in Workers :
        acquired[w] = "false"
        => /\ pc[w] \in {"close", "done"}
           /\ ret[w] = "skipped_locked"
           /\ plan[w] = NoPlan
           /\ results[w] = EmptyDict
           /\ \A t \in submitted : t.by # w
           /\ ~Committed(w)
           /\ RowsOf(w) = <<>>

\* a refused worker has returned while the holder is still executing
C5_Witness ==
    \E w1, w2 \in Workers :
        /\ acquired[w2] = "false" /\ pc[w2] = "done"
        /\ w1 \in lockHolders /\ Executing(w1)

\* C7: a committed run has exactly one recipient row per planned recipient,
\* in plan order, with the planned amount and the reference for a transfer
\* that returned a reference, and amount 0 and no reference otherwise.
C7_RowPerRecipient ==
    \A w \in Workers :
        (Committed(w) /\ pc[w] \in {"emit", "close"})
        => /\ Len(RowsOf(w)) = Len(plan[w].recipients)
           /\ \A i \in 1..Len(plan[w].recipients) :
                 LET r   == plan[w].recipients[i]
                     row == RowsOf(w)[i]
                 IN  /\ row.wallet = r.wallet
                     /\ IF r.wallet \in DOMAIN results[w] /\ results[w][r.wallet] # NoSig
                        THEN /\ row.amount_received = r.amount
                             /\ row.tx_signature = results[w][r.wallet]
                        ELSE /\ row.amount_received = 0
                             /\ row.tx_signature = NoSig

\* a committed run with one transfer sent and one failed
C7_Witness ==
    \E w \in Workers :
        /\ Committed(w) /\ pc[w] = "emit"
        /\ \E x, y \in DOMAIN results[w] :
              results[w][x] # NoSig /\ results[w][y] = NoSig

\* C8: a recipient whose transfer failed, at submission or as an on-chain
\* execution error found by the confirmation, is recorded with
\* amount_received = 0.
C8_FailedRecordsZero ==
    \A w \in Workers :
        (Committed(w) /\ pc[w] \in {"emit", "close"})
        => \A i \in 1..Len(RowsOf(w)) :
              LET row == RowsOf(w)[i] IN
              (\/ Get(results[w], row.wallet) = NoSig
               \/ Get(confirm[w], row.tx_signature) = "failed")
              => row.amount_received = 0

\* C9: transfer failures never end a run: a step of the transfer loop or of
\* the confirmation keeps the run on its way to the commit, and a run past
\* its commit has the Distribution row and every recipient row, and
\* returns the Distribution.
C9_PartialFailureCommits ==
    /\ [][\A w \in Workers :
            pc[w] \in {"transfer", "confirm"}
            => /\ pc'[w] \in {"transfer", "confirm", "record"}
               /\ ret'[w] = ret[w]]_vars
    /\ [](\A w \in Workers :
            pc[w] = "emit"
            => /\ Committed(w)
               /\ Len(RowsOf(w)) = Len(plan[w].recipients))
    /\ [][\A w \in Workers : pc[w] = "emit" => ret'[w] \in {"none", "success"}]_vars

\* a run committed and returned its Distribution although every transfer failed
C9_Witness ==
    \E w \in Workers :
        /\ pc[w] = "close" /\ ret[w] = "success" /\ Committed(w)
        /\ credentials
        /\ Len(plan[w].recipients) = 2
        /\ FailedWallets(w) = {plan[w].recipients[i].wallet : i \in 1..2}

\* C10: after a commit, get_failed_transfers(distribution_id) returns
\* exactly the rows of the recipients whose transfer returned no reference.
C10_FailedTransfers ==
    \A w \in Workers :
        (Committed(w) /\ pc[w] \in {"emit", "close"})
        => LET failed == GetFailedTransfers(recipientRows, DistId(w)) IN
           /\ {failed[i].wallet : i \in 1..Len(failed)} = FailedWallets(w)
           /\ Len(failed) = Cardinality(FailedWallets(w))
           /\ \A i \in 1..Len(failed) :
                 /\ failed[i].distribution_id = DistId(w)
                 /\ failed[i].tx_signature = NoSig

\* two committed runs, each with a failed transfer, the later one also with
\* a transfer that was sent
C10_Witness ==
    \E w1, w2 \in Workers :
        /\ w1 # w2 /\ Committed(w1) /\ Committed(w2) /\ pc[w2] = "emit"
        /\ GetFailedTransfers(recipientRows, DistId(w1)) # <<>>
        /\ FailedWallets(w2) # {}
        /\ \E x \in DOMAIN results[w2] : results[w2][x] # NoSig

\* C20: a transfer that was submitted and is still unresolved when the
\* confirmation times out keeps its reference in the executor's results, is
\* recorded with that reference and its planned amount, and is not returned
\* by get_failed_transfers.
C20_TimeoutKeepsReference ==
    \A w \in Workers :
        /\ pc[w] = "record" => Pending(w) \subseteq SentSigs(w)
        /\ (Committed(w) /\ pc[w] \in {"emit", "close"})
           => \A i \in 1..Len(plan[w].recipients) :
                 LET r == plan[w].recipients[i]
                     s == Get(results[w], r.wallet)
                 IN  (s # NoSig /\ confirm[w][s] = "pending")
                     => /\ RowsOf(w)[i].wallet = r.wallet
                        /\ RowsOf(w)[i].tx_signature = s
                        /\ RowsOf(w)[i].amount_received = r.amount
                        /\ \A f \in {GetFailedTransfers(recipientRows, DistId(w)),
                                     GetFailedTransfers(recipientRows, 0)} :
                              \A j \in 1..Len(f) :
                                 ~(f[j].distribution_id = DistId(w)
                                   /\ f[j].wallet = r.wallet)

\* a committed run whose confirmation timed out on one reference while
\* another transfer failed at submission
C20_Witness ==
    \E w \in Workers :
        /\ Committed(w) /\ pc[w] = "emit"
        /\ Pending(w) # {}
        /\ FailedWallets(w) # {}

\* wallets of the first n planned recipients of w
PlannedWallets(w, n) == {plan[w].recipients[i].wallet : i \in 1..n}

\* C21: the sequential executor attempts each recipient exactly once, in
\* plan order, whatever failed before: every step of the loop handles the
\* next recipient of the plan, adds its entry (reference or None) and keeps
\* the earlier entries, the loop goes on until the last recipient, and the
\* returned map has an entry for every recipient and one submitted transfer
\* per reference.
C21_EveryRecipientAttempted ==
    /\ [][\A w \in Workers :
            (pc[w] = "transfer" /\ <<idx'[w], results'[w], pc'[w]>> # <<idx[w], results[w], pc[w]>>)
            => LET r == plan[w].recipients[idx[w]] IN
               /\ idx'[w] = idx[w] + 1
               /\ r.wallet \notin DOMAIN results[w]
               /\ DOMAIN results'[w] = DOMAIN results[w] \cup {r.wallet}
               /\ \A x \in DOMAIN results[w] : results'[w][x] = results[w][x]
               /\ (pc'[w] = "transfer") <=> (idx[w] < Len(plan[w].recipients))]_vars
    /\ [](\A w \in Workers :
            /\ pc[w] = "transfer"
               => DOMAIN results[w] = PlannedWallets(w, idx[w] - 1)
            /\ (pc[w] \in {"confirm", "record"} /\ credentials)
               => /\ DOMAIN results[w] = PlannedWallets(w, Len(plan[w].recipients))
                  /\ \A x \in DOMAIN results[w] :
                        Cardinality({t \in submitted : t.by = w /\ t.to = x})
                           = IF results[w][x] = NoSig THEN 0 ELSE 1)

\* the transfer to the first recipient failed and the second was still sent
C21_Witness ==
    \E w \in Workers :
        /\ pc[w] \in {"confirm", "record"} /\ credentials
        /\ Len(plan[w].recipients) = 2
        /\ results[w][plan[w].recipients[1].wallet] = NoSig
        /\ results[w][plan[w].recipients[2].wallet] # NoSig

\* C27: a missing credential fails the run: when the pool signing key or
\* the reward mint is not configured, no Distribution row and no recipient
\* row is committed and the aggregate stats are not changed.
C27_MissingCredentialFailsRun ==
    ~credentials
    => /\ distributions = {}
       /\ recipientRows = <<>>
       /\ totalDistributed = 0

\* C30: should_distribute returns True exactly when the pool balance is
\* positive: check_and_distribute goes on to plan a distribution iff the
\* pool holds something, also when no distribution was ever made.
C30_TriggerIffPoolPositive ==
    [][\A w \in Workers :
          (pc[w] = "trigger" /\ pc'[w] # "trigger")
          => ((pc'[w] = "plan") <=> (poolBalance > 0))]_vars

\* ------------------------------------------------------------------------
\* Properties of batch_confirm_transactions (SpecConfirm, FairSpecConfirm)
\* ------------------------------------------------------------------------
\* a poll of w was answered in this step
Answered(w) == polls'[w] = polls[w] + 1 /\ statuses'[w] # EmptyDict

\* C18 as stated: a reference resolves True only on a status reported
\* finalized without error; a reference reported with an error resolves
\* False at that poll; a resolved reference is not polled again.
C18_TrueOnlyFinalized ==
    [][\A w \in Workers : \A s \in DOMAIN confirm[w] :
          /\ (confirm[w][s] = "pending" /\ confirm'[w][s] = "confirmed")
             => /\ Answered(w) /\ s \in DOMAIN statuses'[w]
                /\ statuses'[w][s].confirmationStatus = "finalized"
                /\ ~statuses'[w][s].err
          /\ (Answered(w) /\ s \in DOMAIN statuses'[w] /\ statuses'[w][s].err)
             => confirm'[w][s] = "failed"
          /\ (Answered(w) /\ confirm[w][s] # "pending")
             => s \notin DOMAIN statuses'[w]]_vars

\* C18 (amended): a reference resolves True only on a status reported
\* confirmed or finalized without error; a reference reported confirmed or
\* finalized with an error resolves False at that poll; a resolved reference
\* keeps its result and is not polled again.
C18_TrueOnlyConfirmedOrFinalized ==
    [][\A w \in Workers : \A s \in DOMAIN confirm[w] :
          /\ (confirm[w][s] = "pending" /\ confirm'[w][s] = "confirmed")
             => /\ Answered(w) /\ s \in DOMAIN statuses'[w]
                /\ statuses'[w][s].confirmationStatus \in {"confirmed", "finalized"}
                /\ ~statuses'[w][s].err
          /\ (/\ Answered(w) /\ s \in DOMAIN statuses'[w]
              /\ statuses'[w][s].confirmationStatus \in {"confirmed", "finalized"}
              /\ statuses'[w][s].err)
             => confirm'[w][s] = "failed"
          /\ (Answered(w) /\ confirm[w][s] # "pending")
             => s \notin DOMAIN statuses'[w]
          /\ (confirm[w][s] # "pending" /\ s \in DOMAIN confirm'[w])
             => confirm'[w][s] = confirm[w][s]]_vars

\* one poll resolved a reference True on "confirmed" and another False on an
\* error, while a later poll left a "processed" error pending
C18_Witness ==
    \E w \in Workers : \E s1, s2 \in DOMAIN confirm[w] :
        /\ pc[w] = "batch_confirm" /\ polls[w] = 2
        /\ confirm[w][s1] = "confirmed" /\ s1 \notin DOMAIN statuses[w]
        /\ confirm[w][s2] = "pending" /\ s2 \in DOMAIN statuses[w]
        /\ statuses[w][s2] = [confirmationStatus |-> "processed", err |-> TRUE]

\* C19: batch_confirm_transactions polls only while a reference is pending
\* and the timeout has not elapsed, always returns, and returns one entry per
\* input signature, False for every reference still unresolved.
C19_ConfirmTerminates ==
    /\ \A w \in Workers : (pc[w] = "batch_confirm") ~> (pc[w] = "done")
    /\ [][\A w \in Workers :
            polls'[w] # polls[w] => (Pending(w) # {} /\ polls[w] < MaxPolls)]_vars
    /\ [](\A w \in Workers :
            (pc[w] = "done" /\ kind[w] = "batch_confirm")
            => LET r == ConfirmationResults(confirm[w]) IN
               /\ DOMAIN r = signaturesArg[w]
               /\ \A s \in Pending(w) : r[s] = FALSE)

\* the call returned after its last allowed poll raised, every reference
\* still pending
C19_Witness ==
    \E w \in Workers :
        /\ pc[w] = "done" /\ kind[w] = "batch_confirm"
        /\ signaturesArg[w] # {} /\ Pending(w) = signaturesArg[w]
        /\ polls[w] = MaxPolls /\ statuses[w] = EmptyDict

\* ------------------------------------------------------------------------
\* Properties of the send_* helpers (SpecSend, FairSpecSend)
\* ------------------------------------------------------------------------
\* positions of the submission attempts among the network calls of w
Submissions(w) ==
    {i \in 1..Len(rpcCalls[w]) : rpcCalls[w][i].method = "sendTransaction"}

\* the node's message names a blockhash that is unknown or too old
StaleBlockhash(msg) ==
    \/ Contains(msg, <<"blockhash", "not", "found">>)
    \/ Contains(msg, <<"blockhashnotfound">>)
    \/ Contains(msg, <<"block", "height", "exceeded">>)

\* C14: every submission attempt comes right after its own fetch of the
\* latest blockhash and carries the blockhash of that fetch; no two attempts
\* carry the same blockhash.
C14_FreshBlockhash ==
    \A w \in Workers :
        /\ \A i \in Submissions(w) :
              /\ i > 1
              /\ rpcCalls[w][i - 1].method = "getLatestBlockhash"
              /\ rpcCalls[w][i - 1].blockhash = i - 1
              /\ rpcCalls[w][i].blockhash = i - 1
        /\ \A i, j \in Submissions(w) :
              i # j => rpcCalls[w][i].blockhash # rpcCalls[w][j].blockhash

\* a call that submitted three times and was accepted at the last attempt
C14_Witness ==
    \E w \in Workers :
        /\ pc[w] = "done" /\ kind[w] \in SendKinds
        /\ Cardinality(Submissions(w)) = 3
        /\ txResult[w].success

\* C15: a submission answered with an error that is not a stale blockhash
\* error (a JSON-RPC error of another kind, or an exception) is the last
\* network call of the call, which ends with a failure result.
C15_NoRetryOnOtherErrors ==
    \A w \in Workers : \A i \in Submissions(w) :
        LET a == rpcCalls[w][i].answer IN
        (\/ a.class = "exception"
         \/ a.class = "error" /\ ~StaleBlockhash(a.message))
        => /\ i = Len(rpcCalls[w])
           /\ pc[w] = "done"
           /\ ~txResult[w].success

C17_AmountValidated ==
    \A w \in Workers :
        (/\ kind[w] \in {"send_sol_transfer", "send_spl_token_transfer"}
         /\ amountArg[w] \in {Amount(-1), Amount(0),
                              [neg |-> FALSE, digs |-> Increment(MaxAmount(kind[w]))]})
        => /\ pc[w] = "done"
           /\ ~txResult[w].success
           /\ txResult[w].error # <<>>
           /\ rpcCalls[w] = <<>>

\* a token amount one above MAX_TOKEN_AMOUNT was refused, and the call made
\* no network call
C17_Witness ==
    \E w \in Workers :
        /\ kind[w] = "send_spl_token_transfer" /\ pc[w] = "done"
        /\ amountArg[w] = [neg |-> FALSE, digs |-> Increment(MAX_TOKEN_AMOUNT)]
        /\ txResult[w] = Failure(<<"amount", "exceeds", "maximum">>)
        /\ rpcCalls[w] = <<>>

\* C22: a batched transfer has no partial outcome: its result either is a
\* success with every input wallet in successful_wallets, one signature and
\* no failed wallet, or a failure with every input wallet in failed_wallets
\* and no successful wallet.
C22_BatchAllOrNothing ==
    \A w \in Workers :
        (pc[w] = "done" /\ kind[w] = "send_batch_spl_token_transfers")
        => LET r == txResult[w]
               wallets == BatchWallets(amountArg[w])
           IN  \/ /\ r.success
                  /\ r.successful_wallets = wallets /\ r.failed_wallets = <<>>
                  /\ wallets # <<>> => r.signature # NoSig
               \/ /\ ~r.success /\ r.signature = NoSig
                  /\ r.failed_wallets = wallets /\ r.successful_wallets = <<>>

\* a batch of two that failed on its second attempt
C22_Witness ==
    \E w \in Workers :
        /\ pc[w] = "done" /\ kind[w] = "send_batch_spl_token_transfers"
        /\ attempt[w] = 1 /\ ~txResult[w].success
        /\ txResult[w].failed_wallets = <<"a", "b">>

\* ------------------------------------------------------------------------
\* Properties of the reconciliation (SpecRetry)
\* ------------------------------------------------------------------------
\* the transfers that retries of worker w sent
RetryTransfers(w) == {t \in submitted : t.by = w}

\* C11: retrying a recipient row that already has a transaction reference
\* does nothing and reports success: the call returns True at once, sends no
\* transfer and leaves every row as it was.
C11_RetryOfSucceededIsNoOp ==
    [][\A w \in Workers :
          (/\ pc[w] = "idle" /\ pc'[w] # "idle" /\ kind'[w] = "retry"
           /\ recipientRows[recipientArg'[w]].tx_signature # NoSig)
          => /\ pc'[w] = "done" /\ ret'[w] = "True"
             /\ submitted' = submitted
             /\ recipientRows' = recipientRows]_vars

C11_Witness ==
    \E w \in Workers :
        /\ pc[w] = "done" /\ kind[w] = "retry" /\ ret[w] = "True"
        /\ recipientRows[recipientArg[w]].tx_signature # NoSig
        /\ RetryTransfers(w) = {}

\* C12: retrying a failed row with the pool credentials configured, when the
\* transfer is sent successfully, sets the row's reference and received
\* amount to the new transfer and the planned amount, and returns True.
C12_RetrySuccessUpdatesRow ==
    \A w \in Workers :
        (pc[w] = "done" /\ kind[w] = "retry" /\ RetryTransfers(w) # {})
        => /\ ret[w] = "True"
           /\ recipientRows[recipientArg[w]].tx_signature = RetrySig(w)
           /\ recipientRows[recipientArg[w]].amount_received = plannedArg[w]

\* C35: over the retry_failed_transfer calls made on one recipient row, at
\* most one call has a transfer to that recipient accepted by the network.
C35_AtMostOneRetryTransfer ==
    \A i \in 1..Len(recipientRows) :
        Cardinality({w \in Workers : /\ kind[w] = "retry" /\ recipientArg[w] = i
                                     /\ RetryTransfers(w) # {}}) <= 1

\* ------------------------------------------------------------------------
\* Properties of the revenue ingestion (SpecReward)
\* ------------------------------------------------------------------------
\* C13: recording revenue is idempotent by transaction signature: at most
\* one CreatorReward row exists per non-null tx_signature, and a call whose
\* tx_signature is already recorded returns that first record as it is (same
\* id, amount, source and processed flag) and leaves the table unchanged.
C13_RecordIdempotent ==
    /\ [](\A i, j \in 1..Len(creatorRewards) :
             (creatorRewards[i].tx_signature # NoSig
              /\ creatorRewards[i].tx_signature = creatorRewards[j].tx_signature)
             => i = j)
    /\ [][\A w \in Workers : \A i \in 1..Len(creatorRewards) :
             (/\ pc[w] = "idle" /\ pc'[w] # "idle" /\ kind'[w] = "record_reward"
              /\ rewardArg'[w].tx_signature # NoSig
              /\ rewardArg'[w].tx_signature = creatorRewards[i].tx_signature)
             => /\ pc'[w] = "done"
                /\ returned'[w] = creatorRewards[i]
                /\ creatorRewards' = creatorRewards]_vars

C13_Witness ==
    \E w \in Workers :
        /\ pc[w] = "done" /\ kind[w] = "record_reward" /\ ret[w] = "existing"
        /\ returned[w].processed
        /\ returned[w].amount_sol # rewardArg[w].amount_sol
        /\ Len(RewardsWithSignature(rewardArg[w].tx_signature)) = 1
        /\ creatorRewards[returned[w].id] = returned[w]

\* rows that carry the signature
RewardIdsWithSignature(tx_signature) ==
    {i \in 1..Len(creatorRewards) : creatorRewards[i].tx_signature = tx_signature}

\* C33: after two record_creator_reward calls with the same non-null
\* tx_signature have ended, however their steps interleaved, exactly one
\* CreatorReward row carries the signature, and the unprocessed total holds
\* the amount of that row at most once.
C33_ConcurrentIngestionOnce ==
    \A w, v \in Workers :
        (/\ w # v
         /\ pc[w] = "done" /\ kind[w] = "record_reward"
         /\ pc[v] = "done" /\ kind[v] = "record_reward"
         /\ rewardArg[w].tx_signature # NoSig
         /\ rewardArg[w].tx_signature = rewardArg[v].tx_signature)
        => LET ids == RewardIdsWithSignature(rewardArg[w].tx_signature) IN
           /\ Cardinality(ids) = 1
           /\ \A i \in ids :
                 SumAmountSol(ids \cap UnprocessedRewards)
                    = IF creatorRewards[i].processed THEN 0 ELSE creatorRewards[i].amount_sol

\* both calls passed the select before either committed: one created the row,
\* the commit of the other was refused
C33_Witness ==
    \E w, v \in Workers :
        /\ w # v
        /\ pc[w] = "done" /\ kind[w] = "record_reward" /\ ret[w] = "created"
        /\ pc[v] = "done" /\ kind[v] = "record_reward" /\ ret[v] = "raises"
        /\ rewardArg[w].tx_signature # NoSig
        /\ rewardArg[w].tx_signature = rewardArg[v].tx_signature
        /\ rewardArg[w].amount_sol # rewardArg[v].amount_sol
        /\ Cardinality(RewardIdsWithSignature(rewardArg[w].tx_signature)) = 1
        /\ SumAmountSol(UnprocessedRewards) = rewardArg[w].amount_sol

\* ------------------------------------------------------------------------
\* Properties of _compute_twab (SpecTwab)
\* ------------------------------------------------------------------------
\* length of the overlap of [from, to) with [start, end), never negative
Overlap(from, to, start, end) ==
    LET lo == IF from > start THEN from ELSE start
        hi == IF to < end THEN to ELSE end
    IN  IF hi > lo THEN hi - lo ELSE 0

\* sum of balance_i * overlap of [t_i, t_(i+1) or end) with [start, end)
RECURSIVE ForwardFill(_, _, _)
ForwardFill(balances, start, end) ==
    IF balances = <<>> THEN 0
    ELSE LET to == IF Len(balances) > 1 THEN balances[2].timestamp ELSE end IN
         balances[1].balance * Overlap(balances[1].timestamp, to, start, end)
         + ForwardFill(Tail(balances), start, end)

\* C29: _compute_twab equals the forward-fill reference, the sum of balance
\* times overlap divided by the window duration and truncated; time before
\* the first sample counts as zero, a constant balance over the whole window
\* gives that balance, and no samples, a window of duration <= 0 or a single
\* sample at or after the end give 0.
C29_ForwardFillReference ==
    \A w \in Workers :
        (pc[w] = "done" /\ kind[w] = "twab")
        => LET balances == balancesArg[w]
               start == windowArg[w].start
               end == windowArg[w].end
           IN  /\ (balances # <<>> /\ end > start)
                  => twabRet[w] = ForwardFill(balances, start, end) \div (end - start)
               /\ (balances = <<>> \/ end <= start) => twabRet[w] = 0
               /\ (Len(balances) = 1 /\ balances[1].timestamp >= end) => twabRet[w] = 0
               /\ (Len(balances) >= 1 /\ end > start /\ balances[1].timestamp <= start
                   /\ \A i \in 1..Len(balances) : balances[i].balance = balances[1].balance)
                  => twabRet[w] = balances[1].balance

\* a single sample of balance 4 at 75% of the window [0, 4) gives 1
C29_Witness ==
    \E w \in Workers :
        /\ pc[w] = "done" /\ kind[w] = "twab"
        /\ windowArg[w] = [start |-> 0, end |-> 4]
        /\ balancesArg[w] = <<[timestamp |-> 3, balance |-> 4]>>
        /\ twabRet[w] = 1
\* ------------------------------------------------------------------------
\* Ledger against network (Spec)
\* ------------------------------------------------------------------------
\* C36: when execute_distribution has returned, every transfer of the run
\* that the network accepted stands in a committed DistributionRecipient row
\* of the run with its reference, whatever happened to the bookkeeping.
C36_SubmittedTransfersRecorded ==
    \A w \in Workers :
        (pc[w] \in {"close", "done"} /\ kind[w] \in Kinds)
        => \A t \in submitted :
              t.by = w
              => \E i \in 1..Len(recipientRows) :
                    /\ recipientRows[i].distribution_id = DistId(w)
                    /\ recipientRows[i].wallet = t.to
                    /\ recipientRows[i].tx_signature = t.sig

\* ------------------------------------------------------------------------
\* Further properties of the planner (SpecPlan)
\* ------------------------------------------------------------------------
\* C31: every plan calculate_distribution returns has only amounts >= 1, and
\* its recipient_count is the length of its recipients list.
C31_NoDustInPlan ==
    \A w \in Workers :
        (Planned(w) /\ plan[w].valid)
        => /\ \A i \in 1..Len(plan[w].recipients) : plan[w].recipients[i].amount >= 1
           /\ plan[w].recipient_count = Len(plan[w].recipients)

\* an eligible account of positive weight was dropped as dust, the count
\* is the number of those kept
C31_Witness ==
    \E w \in Workers :
        /\ Planned(w) /\ plan[w].valid
        /\ \E i \in 1..Len(EligibleHashPowers) :
              /\ EligibleHashPowers[i].hash_power > 0
              /\ PlannedAmount(w, EligibleHashPowers[i].wallet) = 0
        /\ plan[w].recipient_count = Len(plan[w].recipients)
        /\ plan[w].recipient_count >= 1

\* C39 as stated: an account whose weight is greater than or equal to
\* another's is planned at least the other's amount (dropped accounts count
\* as 0).
C39_MonotoneInWeight ==
    \A w \in Workers :
        (Planned(w) /\ plan[w].valid)
        => \A i, j \in 1..Len(EligibleHashPowers) :
              EligibleHashPowers[i].hash_power >= EligibleHashPowers[j].hash_power
              => PlannedAmount(w, EligibleHashPowers[i].wallet)
                    >= PlannedAmount(w, EligibleHashPowers[j].wallet)

\* C39 amended: an account of strictly greater weight is planned at least the
\* other's amount; of two accounts of equal weight the one earlier in the
\* order is planned the other's amount or one unit more.
C39_MonotoneInStrictWeight ==
    \A w \in Workers :
        (Planned(w) /\ plan[w].valid)
        => \A i, j \in 1..Len(EligibleHashPowers) :
              LET a == EligibleHashPowers[i]
                  b == EligibleHashPowers[j]
                  amount_a == PlannedAmount(w, a.wallet)
                  amount_b == PlannedAmount(w, b.wallet)
              IN  /\ a.hash_power > b.hash_power => amount_a >= amount_b
                  /\ (a.hash_power = b.hash_power /\ i < j)
                        => amount_a \in {amount_b, amount_b + 1}

\* the remainder separated two accounts of equal weight, and an account of
\* smaller weight was planned less than a heavier one
C39_Witness ==
    \E w \in Workers :
        /\ Planned(w) /\ plan[w].valid
        /\ \E i, j \in 1..Len(EligibleHashPowers) :
              /\ i < j
              /\ EligibleHashPowers[i].hash_power = EligibleHashPowers[j].hash_power
              /\ PlannedAmount(w, EligibleHashPowers[i].wallet)
                    = PlannedAmount(w, EligibleHashPowers[j].wallet) + 1
        /\ \E i, j \in 1..Len(EligibleHashPowers) :
              /\ EligibleHashPowers[i].hash_power > EligibleHashPowers[j].hash_power
              /\ PlannedAmount(w, EligibleHashPowers[i].wallet)
                    > PlannedAmount(w, EligibleHashPowers[j].wallet)

\* ------------------------------------------------------------------------
\* Properties of the buyback pass (SpecBuyback, SpecNotify)
\* ------------------------------------------------------------------------
QuoteCalls(w) == SelectSeq(jupiterCalls[w], LAMBDA c : c.api = "quote")
SwapCalls(w) == SelectSeq(jupiterCalls[w], LAMBDA c : c.api = "swap")

\* C26: execute_swap fetches at most two quotes and posts at most one swap; the
\* quote it posts is the last one fetched; a quote that was not refetched is
\* younger than JUPITER_QUOTE_MAX_AGE_SECONDS when it is posted (the check and
\* the POST follow each other without an await); a refetch happens only for an
\* initial quote that had reached the maximum age, and a failed refetch ends the
\* call with a failure result and no swap request.
C26_StaleQuoteRefetched ==
    \A w \in Workers :
        LET q == QuoteCalls(w)
            s == SwapCalls(w)
        IN  /\ Len(q) <= 2
            /\ Len(s) <= 1
            /\ Len(s) = 1 =>
                  /\ Len(q) >= 1
                  /\ q[Len(q)].ok
                  /\ s[1].quote_at = q[Len(q)].at
                  /\ Len(q) = 1 => s[1].at - s[1].quote_at < JUPITER_QUOTE_MAX_AGE_SECONDS
            /\ Len(q) = 2 =>
                  /\ q[1].ok
                  /\ q[2].at - q[1].at >= JUPITER_QUOTE_MAX_AGE_SECONDS
                  /\ ~q[2].ok =>
                        /\ Len(s) = 0
                        /\ ~swapResult[w].success
                        /\ pc[w] \notin {"swap_check", "swap_refetch", "swap_submit"}

\* a stale initial quote was replaced and the replacement was posted
C26_Witness ==
    \E w \in Workers : Len(QuoteCalls(w)) = 2 /\ Len(SwapCalls(w)) = 1

\* C24: a pass whose swap did not succeed returns with every CreatorReward it
\* read still unprocessed.
C24_FailedSwapLeavesRevenue ==
    [][\A w \in Workers :
          (/\ pc[w] = "pass_mark" /\ pc'[w] = "done" /\ ret'[w] # "raises"
           /\ ~BuybackSuccess(w))
          => \A i \in passRewards[w] : ~creatorRewards'[i].processed]_vars

BuybacksFor(rows, tx_signature) ==
    {i \in 1..Len(rows) : rows[i].tx_signature = tx_signature}

\* C25: a pass whose swap succeeded and that returns leaves exactly one Buyback
\* row for the swap's signature and every CreatorReward it read processed; no
\* signature ever has two Buyback rows.
C25_SuccessRecordsAndMarks ==
    /\ [][\A w \in Workers :
             (/\ pc[w] = "pass_mark" /\ pc'[w] = "done" /\ ret'[w] # "raises"
              /\ BuybackSuccess(w))
             => /\ Cardinality(BuybacksFor(buybacks', swapResult[w].tx_signature)) = 1
                /\ \A i \in passRewards[w] : creatorRewards'[i].processed]_vars
    /\ [](\A i, j \in 1..Len(buybacks) :
             buybacks[i].tx_signature = buybacks[j].tx_signature => i = j)

\* a pass returned after a successful swap and no side transfer
C25_Witness ==
    \E w \in Workers :
        /\ pc[w] = "done" /\ kind[w] = "buyback_pass" /\ ret[w] = "success"
        /\ sideTx[w] = NoSideTx
        /\ passRewards[w] # {}
        /\ \A i \in passRewards[w] : creatorRewards[i].processed
        /\ Cardinality(BuybacksFor(buybacks, swapResult[w].tx_signature)) = 1

\* C23: a distribution_executed emit that fails leaves the committed ledger as
\* it is and the run returns the Distribution; a pool:updated emit that fails
\* leaves the Buyback row and the swap result as they are and the pass goes on.
C23_NotificationFailureHarmless ==
    /\ [][\A w \in Workers :
             (pc[w] = "emit" /\ delivery'[w] = "failed")
             => /\ Committed(w)
                /\ UNCHANGED ledger
                /\ ret'[w] = "success"]_vars
    /\ [][\A w \in Workers :
             (pc[w] = "pass_record" /\ delivery'[w] = "failed")
             => /\ Cardinality(BuybacksFor(buybacks', swapResult[w].tx_signature)) = 1
                /\ swapResult'[w] = swapResult[w]
                /\ ret'[w] = ret[w]
                /\ pc'[w] = "pass_side"]_vars
    /\ [](\A w \in Workers :
             (kind[w] = "buyback_pass" /\ delivery[w] = "failed")
             => /\ swapResult[w].success
                /\ Cardinality(BuybacksFor(buybacks, swapResult[w].tx_signature)) = 1)

\* both notifications failed, the run and the pass reported success
C23_Witness ==
    /\ pc["w1"] = "close" /\ delivery["w1"] = "failed" /\ ret["w1"] = "success"
    /\ Committed("w1")
    /\ pc["w2"] = "done" /\ delivery["w2"] = "failed" /\ ret["w2"] = "success"
    /\ Len(buybacks) = 1

\* ------------------------------------------------------------------------
\* Properties of calculate_all_hash_powers (SpecWeights)
\* ------------------------------------------------------------------------
\* C32: the list calculate_all_hash_powers returns has at most one entry per
\* wallet, no wallet of the exclusion set, and only wallets whose TWAB over
\* the period, computed from their rows, is at least min_balance.
C32_OnePerEligibleAccount ==
    \A w \in Workers :
        (pc[w] = "done" /\ kind[w] = "weights")
        => LET hp == hashPowers[w]
               arg == weightsArg[w]
           IN  /\ \A i, j \in 1..Len(hp) : hp[i].wallet = hp[j].wallet => i = j
               /\ \A i \in 1..Len(hp) :
                     /\ hp[i].wallet \notin arg.excluded
                     /\ hp[i].twab = ComputeTwab(BalancesOf(arg.rows, hp[i].wallet),
                                                 PeriodStart, PeriodEnd)
                     /\ hp[i].twab >= arg.min_balance

\* one wallet excluded although its TWAB passes the filter, the other returned
C32_Witness ==
    \E w \in Workers :
        /\ pc[w] = "done" /\ kind[w] = "weights"
        /\ weightsArg[w].excluded = {"a"}
        /\ weightsArg[w].min_balance > 0
        /\ ComputeTwab(BalancesOf(weightsArg[w].rows, "a"), PeriodStart, PeriodEnd)
              >= weightsArg[w].min_balance
        /\ Len(BalancesOf(weightsArg[w].rows, "b")) = 2
        /\ Len(hashPowers[w]) = 1
        /\ hashPowers[w][1].wallet = "b"

\* the pass of w has entered execute_swap
SwapAttempted(w) ==
    \/ pc[w] \in {"swap_quote", "swap_check", "swap_refetch", "swap_submit"}
    \/ jupiterCalls[w] # <<>>

\* C37: a pass enters execute_swap only with its pool funding transfer sent and
\* confirmed; a pass whose pool transfer was skipped, failed to send or stayed
\* unconfirmed makes no request to Jupiter and its result is the failure
\* "Pool transfer failed or not confirmed".
C37_SwapOnlyAfterConfirmedFunding ==
    \A w \in Workers :
        /\ SwapAttempted(w)
              => /\ poolTransfer[w].tx # NoSig
                 /\ poolTransfer[w].confirmed
                 /\ \E t \in submitted : t.sig = poolTransfer[w].tx /\ t.to = "pool"
        /\ (/\ pc[w] \in {"pass_record", "pass_side", "pass_mark", "done"}
            /\ passRewards[w] # {}
            /\ ~poolTransfer[w].confirmed)
              => /\ ~SwapAttempted(w)
                 /\ swapResult[w] = BuybackFailure("Pool transfer failed or not confirmed")
                 /\ buybacks = SelectSeq(buybacks, LAMBDA b : b.tx_signature # Sig(w, 2))

\* a pass returned its failure after a pool transfer that was sent and not
\* confirmed
C37_Witness ==
    \E w \in Workers :
        /\ pc[w] = "done" /\ kind[w] = "buyback_pass" /\ ret[w] = "failed"
        /\ poolTransfer[w].tx # NoSig
        /\ ~poolTransfer[w].confirmed
        /\ jupiterCalls[w] = <<>>

\* ------------------------------------------------------------------------
\* Properties of the buyback task (SpecTask)

\* the pass of w has moved SOL out of the creator wallet
TransferredOut(w) ==
    \E t \in submitted : t.by = w /\ t.to \in {"pool", "algo_bot", "team"}

\* C34: each reward is consumed at most once: no two passes that both moved
\* SOL out of the creator wallet have the same reward in their totals.
C34_RewardConsumedOnce ==
    \A w, v \in Workers :
        (w # v /\ TransferredOut(w) /\ TransferredOut(v))
            => passRewards[w] \cap passRewards[v] = {}

\* C38: the step that ends a pass flips to processed only rewards that the
\* pass read into its total; a reward recorded after that read stays
\* unprocessed.
C38_MarksOnlyRewardsRead ==
    [][\A w \in Workers :
          (pc[w] = "pass_mark" /\ pc'[w] = "done")
             => /\ Len(creatorRewards') = Len(creatorRewards)
                /\ \A i \in 1..Len(creatorRewards) :
                      (~creatorRewards[i].processed /\ creatorRewards'[i].processed)
                          => i \in passRewards[w]]_vars

C38_Witness ==
    \E w, v \in Workers :
        /\ pc[w] = "done" /\ passRewards[w] = {1, 2}
        /\ creatorRewards[1].processed /\ creatorRewards[2].processed
        /\ pc[v] = "done" /\ ret[v] = "created"
        /\ Len(creatorRewards) = 3
        /\ ~creatorRewards[3].processed

\* the invocation on w returned status skipped / already_processed
TaskSkipped(w) == pc[w] = "done" /\ ret[w] = "already_processed"

\* C40: with Redis reachable, of two invocations with the same task id at
\* most one proceeds past the idempotency check; the other returns
\* already_processed, and that return reads no reward, changes no reward row
\* and submits no transfer.
C40_OneInvocationPerTaskId ==
    /\ [](redisMode = "reachable"
            => /\ \A w, v \in Workers :
                     (w # v /\ taskId[w] # NoTask /\ taskId[w] = taskId[v])
                         => (TaskSkipped(w) \/ TaskSkipped(v))
               /\ \A w \in Workers :
                     TaskSkipped(w)
                         => /\ passRewards[w] = {}
                            /\ jupiterCalls[w] = <<>>
                            /\ \A t \in submitted : t.by # w)
    /\ [][\A w \in Workers :
             (~TaskSkipped(w) /\ TaskSkipped(w)')
                 => /\ creatorRewards' = creatorRewards
                    /\ submitted' = submitted
                    /\ buybacks' = buybacks]_vars

C40_Witness ==
    \E w, v \in Workers :
        /\ redisMode = "reachable"
        /\ w # v /\ taskId[w] # NoTask /\ taskId[w] = taskId[v]
        /\ TaskSkipped(v)
        /\ pc[w] = "done" /\ ret[w] = "success"
        /\ TransferredOut(w)
        /\ \A i \in passRewards[w] : creatorRewards[i].processed

====
